---- MODULE Spec2Model ----
(***************************************************************************)
(* A model of the PAKT socket engine (package pakt): one Socket bound to   *)
(* one net.Conn, with its callers (Socket.Call), its write path            *)
(* (Socket.write), its read loop and per-frame dispatch goroutines, its    *)
(* call registry (chain) and its close sequence (Socket.Close).  The peer  *)
(* at the other end of the connection is the environment: it reads the     *)
(* frames the socket wrote and puts frames on the inbound stream.          *)
(*                                                                         *)
(* Goroutines are processes with a program counter each.  A step is one    *)
(* operation on shared state (a mutex, a channel, the map of the chain,    *)
(* the connection) together with the goroutine-local code that follows it. *)
(* A goroutine parked in a select is woken by the first event that lets    *)
(* one of its cases proceed (a close of closeChan, a send, a timer value): *)
(* the step of that event also records the case the select has chosen.     *)
(***************************************************************************)
EXTENDS Integers, Sequences, FiniteSets, TLC

(***************************************************************************)
(* Bounds of the model.                                                    *)
(***************************************************************************)
\* Number of Socket.Call invocations (one goroutine each).
MaxCalls == 2
\* Number of distinct strings randomString can return for a chain key.
NumKeys == 2
\* Number of frames the peer puts on the inbound stream.
MaxInbound == 2
\* Frames the peer sends to an engine whose handler waits for a reply.
MaxFrames == 3
\* Number of Reset calls on the Timer.
MaxResets == 2
\* The longest duration passed to NewTimer and Reset, in seconds.
MaxDuration == 2
\* The time up to which the user of the Timer sleeps, in seconds.
MaxSleep == 6
\* Number of conn.Write calls the transport fails while the conn is open.
MaxWriteFail == 1
\* Number of Close calls made by the user of the socket.
MaxUserClose == 2
\* The duration a Call passes as its timeout argument.
ArgTimeout == 3
\* The time the handler of the peer takes to answer a call.
HandlerDelay == 2
\* The time up to which the clock runs, in seconds.
MaxTime == 140
\* The number of OnClose calls.
MaxHooks == 3
\* Number of connections the clients open to the listener of the Server.
MaxConns == 13
\* ServerOptions.Workers: the number of handleConnectionLoop goroutines.
Workers == 2
\* Number of distinct strings randomString can return for a socket id.
NumIDs == 2
\* Number of Server.Close calls made by the user of the server.
MaxServerClose == 1

(***************************************************************************)
(* Program constants.                                                      *)
(***************************************************************************)
ProtocolVersion == 0
maxHeaderBufferSize == 10240
typeClose == 0
typePing == 1
typePong == 2
typeCall == 3
typeCallReturn == 4
\* The durations of the keep-alive, in seconds.
socketTimeout == 45
pingInterval == 30
readTimeout == 40
\* s.maxMessageSize as set by SetMaxMessageSize during initialization.
maxMessageSize == 2
\* s.callTimeout as set by SetCallTimeout during initialization.
callTimeout == 1
\* The capacity of Server.newConnChan.
newConnChanSize == 10
\* The largest uint16.
uint16Max == 65535

Calls == 1 .. MaxCalls
Keys == 1 .. NumKeys
Disps == 1 .. MaxFrames

\* The calls of OnClose.
Hooks == 1 .. MaxHooks

\* The goroutine of an OnClose call: pc "none" (not registered) | "wait"
\* (in <-s.closeChan) | "done" (f has been called), calls: the number of
\* calls of f, arg: the argument of the call, late: registered when the
\* socket was closed.
NoHook == [pc |-> "none", calls |-> 0, arg |-> "", late |-> FALSE]

\* Goroutines that use the write path.
CallT(c) == <<"call", c>>
DispT(d) == <<"disp", d>>
PingT == <<"ping", 0>>
CloseT == <<"close", 0>>
NoTask == <<"none", 0>>
Tasks == {CallT(c) : c \in Calls} \cup {DispT(d) : d \in Disps} \cup {PingT, CloseT}

\* Goroutines that call Close: the users of the socket, the read loop, the
\* timeout loop, and the goroutines of the write path.  closePc of each:
\* "none" | "lock" (waiting for closeMutex) | "held" | "ret".
UserT(u) == <<"user", u>>
ReadT == <<"read", 0>>
IdleT == <<"idle", 0>>
CloseCallers == Tasks \cup {UserT(u) : u \in 1 .. MaxUserClose} \cup {ReadT, IdleT}

\* The absent header (headerI == nil) and the two header structs, decoded.
NoHeader == [fn |-> "", key |-> 0, err |-> ""]
headerCall(fn, key) == [fn |-> fn, key |-> key, err |-> ""]
headerCallReturn(key, err) == [fn |-> "", key |-> key, err |-> err]

VARIABLES
    closeChan,       \* "open" | "closed": s.closeChan, closed by Close
    closeCount,      \* times close(s.closeChan) was executed
    hooks,           \* per OnClose call: the goroutine it started (see NoHook)
    conn,            \* "open" | "closed": the net.Conn, closed by conn.Close()
    connCloseCount,  \* times s.conn.Close() was executed
    readDeadline,    \* the read deadline of the conn (set by s.read)
    writeMutex,      \* the task holding s.writeMutex, or NoTask
    chanMap,         \* chain.chanMap: key -> channel (named by its Call), 0 = absent
    wr,              \* per task: the state of its Socket.write invocation
    wire,            \* the bytes written to conn, as a sequence of segments
    writeFails,      \* conn.Write calls the transport has failed so far
    callPc,          \* per Call: where its goroutine is
    callArg,         \* per Call: the arguments (id, args...) and the key
    callRes,         \* per Call: what Call returns
    timer,           \* per Call: its time.Timer
    userCloses,      \* Close calls made by the user so far
    inq,             \* frames the peer has sent that the read loop has not read
    inSent,          \* number of frames the peer has sent
    peer,            \* the keep-alive of the peer (see NoPeer)
    readPc,          \* the read loop: "off" (before Ready) | "read" | "exit" | "done"
    disp,            \* per dispatch goroutine (one per frame read): its state
    nDisp,           \* number of dispatch goroutines started
    resetTimeoutChan,      \* buffered channel (capacity 1): number of values in it
    resetPingTimeoutChan,  \* buffered channel (capacity 1): number of values in it
    toPc,            \* timeoutLoop: "off" | "select" | "fired" | "done"
    toTimer,         \* its timer: st "armed" | "empty" (fired and received), at
    pingPc,          \* pingLoop: "off" | "select" | "write" | "drain" | "done"
    pingTimer,       \* its timer: st "armed" | "empty" (fired and received), at
    now,             \* the time, in units of the model
    overlap,         \* history: pairs of Calls that were registered at the same time
    srvCloseChan,    \* "open" | "closed": Server.closeChan, closed by Server.Close
    srvCloseMutex,   \* the caller of Server.Close holding closeMutex, or 0
    srvClose,        \* per caller of Server.Close: where its invocation is
    lnClosed,        \* whether s.ln.Close() was called
    sockets,         \* Server.sockets: id -> socket (named by its connection), 0 = absent
    sock,            \* per connection: the Socket made of it (see NoSock)
    newConnChan,     \* Server.newConnChan: the connections buffered in it
    worker,          \* per handleConnectionLoop goroutine: where it is
    listen,          \* the goroutine in Server.Listen: where it is
    remover,         \* per socket: the goroutine of handleConnection waiting to delete it
    accepted,        \* connections ln.Accept has returned so far
    conv,            \* a caller of the byte conversions of utils.go (see NoConv)
    peerConn,        \* "open" | "closed": the end of the connection held by the peer
    closeMutex,      \* the task holding s.closeMutex, or NoTask
    closePc,         \* per task that calls Close: where its call is (see CloseCallers)
    callHook,        \* s.callHook is set
    errorHook,       \* s.errorHook is set
    handled,         \* per dispatch goroutine: the calls handleCallRequest has made (see FuncCall)
    tWhen,           \* Timer: the time at which it expires, 0 when it is not active
    tSending,        \* Timer: expired, the send of its value on C is still to come
    tC,              \* Timer.C (capacity 1): the values sent, as <<arming, time>>
    tEpoch,          \* Timer: the number of times it was armed
    tPc,             \* the goroutine that uses the Timer: "none" | "run" | "drain" | "rearm"
    tReset,          \* the last Reset: its number, case, duration, time and result
    tGot             \* the last value received from Timer.C and the time of the receive

closeVars == <<closeChan, closeCount, hooks>>
connVars == <<conn, connCloseCount, readDeadline>>
callVars == <<callPc, callArg, callRes, timer>>
peerVars == <<inq, inSent, peer>>
chanVars == <<resetTimeoutChan, resetPingTimeoutChan>>
loopVars == <<toPc, toTimer, pingPc, pingTimer>>
lockVars == <<closeMutex, closePc>>
hookVars == <<callHook, errorHook, handled>>
timerVars == <<tWhen, tSending, tC, tEpoch, tPc, tReset, tGot>>
otherVars == <<peerConn, lockVars, hookVars, timerVars>>
serverVars == <<srvCloseChan, srvCloseMutex, srvClose, lnClosed, sockets, sock,
                newConnChan, worker, listen, remover, accepted>>

vars == <<closeChan, closeCount, hooks, conn, connCloseCount, readDeadline, writeMutex, chanMap, wr,
          wire, writeFails, callPc, callArg, callRes, timer, userCloses,
          inq, inSent, peer, readPc, disp, nDisp, resetTimeoutChan,
          resetPingTimeoutChan, toPc, toTimer, pingPc, pingTimer, now, overlap,
          srvCloseChan, srvCloseMutex, srvClose, lnClosed, sockets, sock,
          newConnChan, worker, listen, remover, accepted, conv, peerConn,
          closeMutex,
          closePc,
          callHook,
          errorHook,
          handled,
          tWhen,
          tSending,
          tC,
          tEpoch,
          tPc,
          tReset,
          tGot>>

(***************************************************************************)
(* The codec seam: Encode of a user value.  "nil" is the absent value      *)
(* (write does not call the codec), "small" encodes to one byte, "big" to  *)
(* maxMessageSize + 1 bytes, and "chan" is a value the codec rejects.      *)
(* "pair" encodes to two bytes.  Decode is the inverse on encoded values   *)
(* and fails on every other input.                                         *)
(***************************************************************************)
EncodeFails(v) == v = "chan"

Encode(v) ==
    CASE v = "small" -> <<1>>
      [] v = "big" -> [i \in 1 .. maxMessageSize + 1 |-> 2]
      [] v = "pair" -> <<3, 4>>
      [] OTHER -> <<>>

Decode(data) ==
    CASE data = <<1>> -> "small"
      [] data = <<3, 4>> -> "pair"
      [] data = [i \in 1 .. maxMessageSize + 1 |-> 2] -> "big"
      [] OTHER -> "ErrDecode"

\* Length in bytes of an encoded header struct.
HeaderLen(h) ==
    IF h = NoHeader THEN 0
    ELSE IF h.fn = "long" THEN maxHeaderBufferSize + 1
    ELSE 3

(***************************************************************************)
(* Socket.write, up to the point where it takes the write mutex: encode    *)
(* the payload and the header, check both sizes, compute totalLen.  The    *)
(* result is the state of the write invocation: either it has returned     *)
(* (pc = "ret") with an error and written nothing, or it waits for the     *)
(* mutex (pc = "lock").                                                    *)
(***************************************************************************)
NoWrite == [pc |-> "idle", typ |-> 0, hdr |-> NoHeader, pl |-> <<>>, seg |-> 0,
            n |-> 0, total |-> 0, res |-> "", at |-> 0]

writeReturn(typ, hdr, res) ==
    [pc |-> "ret", typ |-> typ, hdr |-> hdr, pl |-> <<>>, seg |-> 0, n |-> 0,
     total |-> 0, res |-> res, at |-> 0]

write(reqType, headerI, dataI) ==
    IF dataI # "nil" /\ EncodeFails(dataI)
    THEN writeReturn(reqType, headerI, "ErrEncode")
    ELSE LET payload == IF dataI = "nil" THEN <<>> ELSE Encode(dataI)
         IN IF Len(payload) > maxMessageSize
            THEN writeReturn(reqType, headerI, "ErrMaxMsgSizeExceeded")
            ELSE IF HeaderLen(headerI) > maxHeaderBufferSize
            THEN writeReturn(reqType, headerI, "ErrHeaderSize")
            ELSE [pc |-> "lock", typ |-> reqType, hdr |-> headerI, pl |-> payload,
                  seg |-> 0, n |-> 0,
                  total |-> 2 + 2 + 4 + HeaderLen(headerI) + Len(payload),
                  res |-> "", at |-> 0]

\* The conn.Write calls of one frame: head, headerLen, payloadLen, header, payload.
SegLens(w) ==
    <<2, 2, 4>> \o (IF HeaderLen(w.hdr) > 0 THEN <<HeaderLen(w.hdr)>> ELSE <<>>)
                \o (IF Len(w.pl) > 0 THEN <<Len(w.pl)>> ELSE <<>>)

\* utils.go: the big-endian conversions of the two length fields.
\* The little-endian order, which bytesToUint16 does not read back.
uint16ToBytesLittle(v) == <<v % 256, (v \div 256) % 256>>

uint16ToBytes(v) == <<(v \div 256) % 256, v % 256>>

\* A bytesToUint16 that reads the low byte only.
bytesToUint16Low(data) == data[2]

bytesToUint16(data) == data[1] * 256 + data[2]

uint32ToBytes(v) ==
    <<(v \div 16777216) % 256, (v \div 65536) % 256, (v \div 256) % 256, v % 256>>

bytesToUint32(data) == data[1] * 16777216 + data[2] * 65536 + data[3] * 256 + data[4]

\* The codec on a header struct: one byte per field.
EncodeHeader(h) == <<h.fn, h.key, h.err>>

DecodeHeader(data) == [fn |-> data[1], key |-> data[2], err |-> data[3]]

\* The buffers of the conn.Write calls of one frame.
SegBufs(w) ==
    <<<<ProtocolVersion, w.typ>>, uint16ToBytes(HeaderLen(w.hdr)), uint32ToBytes(Len(w.pl))>>
        \o (IF HeaderLen(w.hdr) > 0 THEN <<EncodeHeader(w.hdr)>> ELSE <<>>)
        \o (IF Len(w.pl) > 0 THEN <<w.pl>> ELSE <<>>)

\* An error value: nil, or an error made by errors.New(text); Error() is its
\* text.  errors.New("") is an error, and not nil.
NilErr == <<>>
errorsNew(text) == <<text>>
Error(err) == err[1]

\* What Call returns without a reply: an error and a nil context.
\* via = "parked" records that the value reached a Call parked in its select.
ErrRes(kind) ==
    [err |-> NilErr, data |-> <<>>, kind |-> kind, org |-> 0, rkey |-> 0, via |-> ""]

Parked(res) == [res EXCEPT !.via = "parked"]

\* IsClosed: the non-blocking receive from closeChan.
IsClosed == closeChan = "closed"

\* A Close without the check of the closed state.
CloseUnchecked(w, p, r, tp) ==
    /\ closeChan' = "closed"
    /\ closeCount' = closeCount + 1
    /\ UNCHANGED hooks
    /\ wr' = [w EXCEPT ![CloseT] = write(typeClose, NoHeader, "nil")]
    /\ callPc' = [c \in Calls |-> IF p[c] = "parked" THEN "ret" ELSE p[c]]
    /\ callRes' = [c \in Calls |-> IF p[c] = "parked" THEN Parked(ErrRes("ErrClosed"))
                                   ELSE r[c]]
    /\ toPc' = IF tp = "select" THEN "done" ELSE tp
    /\ pingPc' = IF pingPc = "select" THEN "done" ELSE pingPc

\* A Close that no select of a Call listens to.
CloseUnheardByCall(w, p, r, tp) ==
    /\ callPc' = p
    /\ callRes' = r
    /\ IF IsClosed
       THEN /\ wr' = w
            /\ toPc' = tp
            /\ UNCHANGED <<closeChan, closeCount, hooks, pingPc>>
       ELSE /\ closeChan' = "closed"
            /\ closeCount' = closeCount + 1
            /\ UNCHANGED hooks
            /\ wr' = [w EXCEPT ![CloseT] = write(typeClose, NoHeader, "nil")]
            /\ toPc' = IF tp = "select" THEN "done" ELSE tp
            /\ pingPc' = IF pingPc = "select" THEN "done" ELSE pingPc

(***************************************************************************)
(* Socket.Close, called with the values (w, p, r, tp) that the calling     *)
(* step gives to wr, callPc, callRes and toPc.  Under closeMutex: return   *)
(* if closed; close(closeChan); start the goroutine that writes the close  *)
(* frame and then closes the conn.  close(closeChan) wakes the goroutines  *)
(* parked in a select on closeChan: a parked Call returns ErrClosed, the   *)
(* parked timeoutLoop and pingLoop return.                                 *)
(***************************************************************************)
Close(w, p, r, tp) ==
    IF IsClosed
    THEN /\ wr' = w
         /\ callPc' = p
         /\ callRes' = r
         /\ toPc' = tp
         /\ UNCHANGED <<closeChan, closeCount, hooks, pingPc>>
    ELSE /\ closeChan' = "closed"
         /\ closeCount' = closeCount + 1
         /\ UNCHANGED hooks
         /\ wr' = [w EXCEPT ![CloseT] = write(typeClose, NoHeader, "nil")]
         /\ callPc' = [c \in Calls |-> IF p[c] = "parked" THEN "ret" ELSE p[c]]
         /\ callRes' = [c \in Calls |-> IF p[c] = "parked" THEN Parked(ErrRes("ErrClosed"))
                                         ELSE r[c]]
         /\ toPc' = IF tp = "select" THEN "done" ELSE tp
         /\ pingPc' = IF pingPc = "select" THEN "done" ELSE pingPc

(***************************************************************************)
(* The chain: New picks a random key and retries while it is in the map,   *)
(* so it ends with any key that is not in the map; Get; Delete.            *)
(***************************************************************************)
\* A chain whose New returns the key without storing the channel.
NewUnstored(key, channel) == chanMap

New(key, channel) == [chanMap EXCEPT ![key] = channel]

\* A lookup that ignores the id whenever the first key is in the map.
GetIgnoringID(id) == IF chanMap[1] # 0 THEN chanMap[1] ELSE chanMap[id]

Get(id) == chanMap[id]

\* A chain whose Delete leaves the map as it is.
DeleteNothing(id) == chanMap

Delete(id) == [chanMap EXCEPT ![id] = 0]

Registered == {chanMap[k] : k \in Keys} \ {0}

(***************************************************************************)
(* Initial state: NewSocket has returned, the handlers are registered,     *)
(* Ready has not been called.                                              *)
(***************************************************************************)
NoArg == [late |-> FALSE, key |-> 0, data |-> "nil", id |-> "", targ |-> "none"]
NoFrame == [typ |-> 0, hdr |-> NoHeader, pl |-> <<>>, org |-> 0, ver |-> 0,
            hlen |-> 0, plen |-> 0]
NoDisp == [pc |-> "none", at |-> 0, fr |-> NoFrame, ch |-> 0, out |-> ""]
\* No Reset was called yet; nothing was received from Timer.C yet.
NoReset == [d |-> 0, n |-> 0, at |-> 0, case |-> "none", active |-> FALSE]
NoValue == [at |-> 0, epoch |-> 0, sent |-> 0]

NoTimer == [at |-> 0, st |-> "none"]
\* The peer before its Ready.  pingSt, pingAt: the timer of its pingLoop
\* ("off" | "armed" | "fired": the ping was sent | "hung": blocked in the
\* drain); buf: values in its resetPingTimeoutChan; heard: frames of ours it
\* has read; starved: it had a frame to send beyond MaxInbound.
NoPeer == [pingSt |-> "off", pingAt |-> 0, buf |-> 0, heard |-> 0, starved |-> FALSE]

\* s.funcMap after the RegisterFunc calls of the initialization.
funcMap == {"foo"}

\* The server: its connections, socket ids, workers and Close callers.  The
\* last caller of Close is the deferred call of Listen.
Conns == 1 .. MaxConns
IDs == 1 .. NumIDs
WorkerIds == 1 .. Workers
ListenCloser == MaxServerClose + 1
Closers == 1 .. ListenCloser
\* A connection no Socket was made of.  st is the closeChan of the Socket
\* ("none" | "open" | "closed"), id its socket.id (0: not assigned).
NoSock == [id |-> 0, st |-> "none"]
NoServerClose == [pc |-> "idle", list |-> {}]
\* No conversion is going on.  w is the width of the integer (16 | 32), v
\* the integer, data and err what uintToBytes returned, out and outErr what
\* bytesToUint returned.  A uint32 is held as its two 16 bit halves.
NoConv == [pc |-> "none", err |-> NilErr, v |-> 0, data |-> <<>>, w |-> 0,
           out |-> 0, outErr |-> NilErr]

InitState ==
    /\ closeChan = "open"
    /\ closeCount = 0
    /\ hooks = [h \in Hooks |-> NoHook]
    /\ conn = "open"
    /\ connCloseCount = 0
    /\ readDeadline = 0
    /\ writeMutex = NoTask
    /\ chanMap = [k \in Keys |-> 0]
    /\ wr = [t \in Tasks |-> NoWrite]
    /\ wire = <<>>
    /\ writeFails = 0
    /\ callPc = [c \in Calls |-> "idle"]
    /\ callArg = [c \in Calls |-> NoArg]
    /\ callRes = [c \in Calls |-> ErrRes("")]
    /\ timer = [c \in Calls |-> NoTimer]
    /\ userCloses = 0
    /\ inq = <<>>
    /\ inSent = 0
    /\ peer = NoPeer
    /\ readPc = "off"
    /\ disp = [d \in Disps |-> NoDisp]
    /\ nDisp = 0
    /\ resetTimeoutChan = 0
    /\ resetPingTimeoutChan = 0
    /\ toPc = "off"
    /\ toTimer = NoTimer
    /\ pingPc = "off"
    /\ pingTimer = NoTimer
    /\ now = 0
    /\ overlap = {}
    /\ srvCloseChan = "open"
    /\ srvCloseMutex = 0
    /\ srvClose = [u \in Closers |-> NoServerClose]
    /\ lnClosed = FALSE
    /\ sockets = [i \in IDs |-> 0]
    /\ sock = [k \in Conns |-> NoSock]
    /\ newConnChan = <<>>
    /\ worker = [w \in WorkerIds |-> [pc |-> "select", conn |-> 0]]
    /\ listen = [pc |-> "off", conn |-> 0]
    /\ remover = [k \in Conns |-> "none"]
    /\ accepted = 0
    /\ peerConn = "open"
    /\ closeMutex = NoTask
    /\ closePc = [t \in CloseCallers |-> "none"]
    /\ callHook = FALSE
    /\ errorHook = FALSE
    /\ handled = [d \in Disps |-> <<>>]
    /\ tWhen = 0
    /\ tSending = FALSE
    /\ tC = <<>>
    /\ tEpoch = 0
    /\ tPc = "none"
    /\ tReset = NoReset
    /\ tGot = NoValue

Init == InitState /\ conv = NoConv

(***************************************************************************)
(* Socket.write from the mutex on.  Each conn.Write is a step.             *)
(***************************************************************************)
\* A write that goes on without waiting for the mutex.
writeWithoutLock(t) ==
    /\ wr[t].pc = "lock"
    /\ writeMutex' = t
    /\ wr' = [wr EXCEPT ![t].pc = "seg", ![t].seg = 1]
    /\ UNCHANGED <<closeVars, connVars, chanMap, wire, writeFails, callVars,
                   userCloses, peerVars, readPc, disp, nDisp, chanVars, loopVars,
                   now, overlap, serverVars, conv, otherVars>>

\* s.writeMutex.Lock(); s.conn.SetWriteDeadline(writeDeadline)
writeLock(t) ==
    /\ wr[t].pc = "lock"
    /\ writeMutex = NoTask
    /\ writeMutex' = t
    /\ wr' = [wr EXCEPT ![t].pc = "seg", ![t].seg = 1]
    /\ UNCHANGED <<closeVars, connVars, chanMap, wire, writeFails, callVars,
                   userCloses, peerVars, readPc, disp, nDisp, chanVars, loopVars,
                   now, overlap, serverVars, conv, otherVars>>

\* One s.conn.Write(...) that writes its whole buffer.
connWriteOk(t) ==
    /\ wr[t].pc = "seg"
    /\ conn = "open"
    /\ LET w == wr[t]
           len == SegLens(w)[w.seg]
       IN /\ wire' = Append(wire, [t |-> t, i |-> w.seg, n |-> len, len |-> len,
                                   typ |-> w.typ, last |-> w.seg = Len(SegLens(w)),
                                   b |-> SegBufs(w)[w.seg]])
          /\ wr' = [wr EXCEPT ![t].n = w.n + len,
                              ![t].seg = w.seg + 1,
                              ![t].at = now,
                              ![t].pc = IF w.seg = Len(SegLens(w)) THEN "unlock" ELSE "seg"]
    /\ UNCHANGED <<closeVars, connVars, writeMutex, chanMap, writeFails, callVars,
                   userCloses, peerVars, readPc, disp, nDisp, chanVars, loopVars,
                   now, overlap, serverVars, conv, otherVars>>

\* One s.conn.Write(...) on a conn that s.conn.Close() has closed: it writes
\* nothing and returns an error.
connWriteClosed(t) ==
    /\ wr[t].pc = "seg"
    /\ conn = "closed"
    /\ wr' = [wr EXCEPT ![t].pc = "unlock"]
    /\ UNCHANGED <<closeVars, connVars, writeMutex, chanMap, wire, writeFails, callVars,
                   userCloses, peerVars, readPc, disp, nDisp, chanVars, loopVars,
                   now, overlap, serverVars, conv, otherVars>>

\* One s.conn.Write(...) that the transport fails (write deadline, reset by
\* the peer): it returns an error after k bytes, k < len(buf).
connWriteErr(t, k) ==
    /\ wr[t].pc = "seg"
    /\ conn = "open"
    /\ writeFails < MaxWriteFail
    /\ writeFails' = writeFails + 1
    /\ LET w == wr[t]
           len == SegLens(w)[w.seg]
       IN /\ k < len
          /\ wire' = IF k = 0 THEN wire
                     ELSE Append(wire, [t |-> t, i |-> w.seg, n |-> k, len |-> len,
                                        typ |-> w.typ, last |-> w.seg = Len(SegLens(w)),
                                        b |-> SubSeq(SegBufs(w)[w.seg], 1, k)])
          /\ wr' = [wr EXCEPT ![t].n = w.n + k, ![t].pc = "unlock"]
    /\ UNCHANGED <<closeVars, connVars, writeMutex, chanMap, callVars,
                   userCloses, peerVars, readPc, disp, nDisp, chanVars, loopVars,
                   now, overlap, serverVars, conv, otherVars>>

\* A write whose deferred Unlock runs after the deferred check: the mutex is
\* still held when Close is called.
writeUnlockLast(t) ==
    /\ wr[t].pc = "unlock"
    /\ writeMutex' = IF wr[t].n = wr[t].total THEN NoTask ELSE writeMutex
    /\ wr' = IF wr[t].n = wr[t].total
             THEN [wr EXCEPT ![t].pc = "ret", ![t].res = "ok"]
             ELSE [wr EXCEPT ![t].pc = "check"]
    /\ UNCHANGED <<closeVars, connVars, chanMap, wire, writeFails, callVars,
                   userCloses, peerVars, readPc, disp, nDisp, chanVars, loopVars,
                   now, overlap, serverVars, conv, otherVars>>

\* defer s.writeMutex.Unlock(), then the deferred check when all bytes were
\* written: write returns nil.
writeUnlock(t) ==
    /\ wr[t].pc = "unlock"
    /\ writeMutex' = NoTask
    /\ wr' = IF wr[t].n = wr[t].total
             THEN [wr EXCEPT ![t].pc = "ret", ![t].res = "ok"]
             ELSE [wr EXCEPT ![t].pc = "check"]
    /\ UNCHANGED <<closeVars, connVars, chanMap, wire, writeFails, callVars,
                   userCloses, peerVars, readPc, disp, nDisp, chanVars, loopVars,
                   now, overlap, serverVars, conv, otherVars>>

\* A deferred check that sets the error and does not close the socket.
writeDeferredNoClose(t) ==
    /\ wr[t].pc = "check"
    /\ wr' = [wr EXCEPT ![t].pc = "ret", ![t].res = "ErrShortWrite"]
    /\ UNCHANGED <<closeVars, connVars, writeMutex, chanMap, wire, writeFails, callVars,
                   userCloses, peerVars, readPc, disp, nDisp, chanVars, loopVars,
                   now, overlap, serverVars, conv, otherVars>>

\* The deferred check when bytesWritten != totalLen: set the error and Close.
writeDeferred(t) ==
    /\ wr[t].pc = "check"
    /\ Close([wr EXCEPT ![t].pc = "ret", ![t].res = "ErrShortWrite"], callPc, callRes, toPc)
    /\ UNCHANGED <<connVars, writeMutex, chanMap, wire, writeFails, callArg, timer,
                   userCloses, peerVars, readPc, disp, nDisp, chanVars, toTimer,
                   pingTimer, now, overlap, serverVars, conv, otherVars>>

(***************************************************************************)
(* The goroutine started by the first Close: write the close frame         *)
(* (errors ignored), then s.conn.Close().                                  *)
(***************************************************************************)
closeGoroutine ==
    /\ wr[CloseT].pc = "ret"
    /\ conn' = "closed"
    /\ connCloseCount' = connCloseCount + 1
    /\ wr' = [wr EXCEPT ![CloseT].pc = "done"]
    /\ UNCHANGED <<closeVars, readDeadline, writeMutex, chanMap, wire, writeFails, callVars,
                   userCloses, peerVars, readPc, disp, nDisp, chanVars, loopVars,
                   now, overlap, serverVars, conv, otherVars>>

\* The user of the socket calls Close.
UserClose ==
    /\ userCloses < MaxUserClose
    /\ userCloses' = userCloses + 1
    /\ Close(wr, callPc, callRes, toPc)
    /\ UNCHANGED <<connVars, writeMutex, chanMap, wire, writeFails, callArg, timer,
                   peerVars, readPc, disp, nDisp, chanVars, toTimer, pingTimer,
                   now, overlap, serverVars, conv, otherVars>>

(***************************************************************************)
(* Socket.Call(id, args...).  id is "foo" (a function of the peer) or      *)
(* "long" (an id whose encoded header is over the maximum header size);    *)
(* data is args[0]; targ is args[1]: "none" when absent, "dur" for a       *)
(* time.Duration, "bad" for a value of any other type.                     *)
(***************************************************************************)
\* timeoutDuration: s.callTimeout unless args[1] is a duration.
timeoutDuration(targ) == IF targ = "dur" THEN ArgTimeout ELSE callTimeout

\* A value on the channel that is not a retChainData: the type assertion of
\* Call fails.
retOtherData(fr) ==
    [kind |-> "ErrAssertReturnData", err |-> NilErr, data |-> <<>>, org |-> fr.org,
     rkey |-> fr.hdr.key, via |-> ""]

\* The value received from the channel: retChainData{Context, Err} built by
\* handleCallReturnRequest from the frame (org is the history of the frame:
\* the Call whose request the peer answered with it).
retChainData(fr) ==
    [kind |-> "reply",
     err |-> IF fr.hdr.err # "" THEN errorsNew(fr.hdr.err) ELSE NilErr,
     data |-> fr.pl, org |-> fr.org,
     rkey |-> fr.hdr.key, via |-> ""]

\* funcChain.New(), the header, and write up to the mutex.
Call(c, id, data, targ) ==
    /\ callPc[c] = "idle"
    /\ \E key \in Keys :
          /\ Get(key) = 0
          /\ chanMap' = New(key, c)
          /\ callArg' = [callArg EXCEPT ![c] = [id |-> id, data |-> data, targ |-> targ,
                                                key |-> key, late |-> IsClosed]]
          /\ wr' = [wr EXCEPT ![CallT(c)] = write(typeCall, headerCall(id, key), data)]
    /\ overlap' = overlap \cup {<<c, o>> : o \in Registered} \cup {<<o, c>> : o \in Registered}
    /\ UNCHANGED <<serverVars, conv, otherVars>>
    /\ callPc' = [callPc EXCEPT ![c] = "write"]
    /\ UNCHANGED <<closeVars, connVars, writeMutex, wire, writeFails, callRes, timer,
                   userCloses, peerVars, readPc, disp, nDisp, chanVars, loopVars, now>>

\* write has returned: return its error, or check args[1] and create the timer.
CallWritten(c) ==
    /\ callPc[c] = "write"
    /\ wr[CallT(c)].pc = "ret"
    /\ IF wr[CallT(c)].res # "ok"
       THEN /\ callRes' = [callRes EXCEPT ![c] = ErrRes(wr[CallT(c)].res)]
            /\ callPc' = [callPc EXCEPT ![c] = "ret"]
            /\ UNCHANGED timer
       ELSE IF callArg[c].targ = "bad"
       THEN /\ callRes' = [callRes EXCEPT ![c] = ErrRes("ErrTimeoutArg")]
            /\ callPc' = [callPc EXCEPT ![c] = "ret"]
            /\ UNCHANGED timer
       ELSE /\ timer' = [timer EXCEPT ![c] = [st |-> "armed",
                                              at |-> now + timeoutDuration(callArg[c].targ)]]
            /\ callPc' = [callPc EXCEPT ![c] = "select"]
            /\ UNCHANGED callRes
    /\ UNCHANGED <<closeVars, connVars, writeMutex, chanMap, wr, wire, writeFails, callArg,
                   userCloses, peerVars, readPc, disp, nDisp, chanVars, loopVars,
                   now, overlap, serverVars, conv, otherVars>>

\* The select finds closeChan closed.
CallSelectClosed(c) ==
    /\ callPc[c] = "select"
    /\ IsClosed
    /\ callRes' = [callRes EXCEPT ![c] = ErrRes("ErrClosed")]
    /\ callPc' = [callPc EXCEPT ![c] = "ret"]
    /\ UNCHANGED <<closeVars, connVars, writeMutex, chanMap, wr, wire, writeFails, callArg,
                   timer, userCloses, peerVars, readPc, disp, nDisp, chanVars, loopVars,
                   now, overlap, serverVars, conv, otherVars>>

\* The select finds a value in timeout.C.
CallSelectTimeout(c) ==
    /\ callPc[c] = "select"
    /\ timer[c].st = "fired"
    /\ timer' = [timer EXCEPT ![c].st = "empty"]
    /\ callRes' = [callRes EXCEPT ![c] = ErrRes("ErrTimeout")]
    /\ callPc' = [callPc EXCEPT ![c] = "ret"]
    /\ UNCHANGED <<closeVars, connVars, writeMutex, chanMap, wr, wire, writeFails, callArg,
                   userCloses, peerVars, readPc, disp, nDisp, chanVars, loopVars,
                   now, overlap, serverVars, conv, otherVars>>

\* A Call that receives from its channel and goes on waiting.
CallSelectReplyAgain(c, d) ==
    /\ callPc[c] = "select"
    /\ disp[d].pc = "offer"
    /\ disp[d].ch = c
    /\ callRes' = [callRes EXCEPT ![c] = retChainData(disp[d].fr)]
    /\ disp' = [disp EXCEPT ![d].pc = "done", ![d].out = "delivered"]
    /\ UNCHANGED <<closeVars, connVars, writeMutex, chanMap, wr, wire, writeFails, callArg,
                   callPc, timer, userCloses, peerVars, readPc, nDisp, chanVars, loopVars,
                   now, overlap, serverVars, conv, otherVars>>

\* The select finds dispatch goroutine d blocked in its send on the channel.
CallSelectReply(c, d) ==
    /\ callPc[c] = "select"
    /\ disp[d].pc = "offer"
    /\ disp[d].ch = c
    /\ callRes' = [callRes EXCEPT ![c] = retChainData(disp[d].fr)]
    /\ callPc' = [callPc EXCEPT ![c] = "ret"]
    /\ disp' = [disp EXCEPT ![d].pc = "done", ![d].out = "delivered"]
    /\ UNCHANGED <<closeVars, connVars, writeMutex, chanMap, wr, wire, writeFails, callArg,
                   timer, userCloses, peerVars, readPc, nDisp, chanVars, loopVars,
                   now, overlap, serverVars, conv, otherVars>>

\* No case of the select can proceed: the goroutine parks.
CallSelectPark(c) ==
    /\ callPc[c] = "select"
    /\ ~IsClosed
    /\ timer[c].st # "fired"
    /\ \A d \in Disps : ~(disp[d].pc = "offer" /\ disp[d].ch = c)
    /\ callPc' = [callPc EXCEPT ![c] = "parked"]
    /\ UNCHANGED <<closeVars, connVars, writeMutex, chanMap, wr, wire, writeFails, callArg,
                   callRes, timer, userCloses, peerVars, readPc, disp, nDisp, chanVars,
                   loopVars, now, overlap, serverVars, conv, otherVars>>

\* The timer of the Call sends on timeout.C: a parked Call returns ErrTimeout.
CallTimerFire(c) ==
    /\ timer[c].st = "armed"
    /\ callPc[c] \in {"select", "parked"}
    /\ IF callPc[c] = "parked"
       THEN /\ timer' = [timer EXCEPT ![c].st = "empty"]
            /\ callRes' = [callRes EXCEPT ![c] = Parked(ErrRes("ErrTimeout"))]
            /\ callPc' = [callPc EXCEPT ![c] = "ret"]
       ELSE /\ timer' = [timer EXCEPT ![c].st = "fired"]
            /\ UNCHANGED <<callRes, callPc>>
    /\ UNCHANGED <<closeVars, connVars, writeMutex, chanMap, wr, wire, writeFails, callArg,
                   userCloses, peerVars, readPc, disp, nDisp, chanVars, loopVars,
                   now, overlap, serverVars, conv, otherVars>>

\* The timer fires when its duration has elapsed.
CallTimerExpire(c) ==
    /\ timer[c].at <= now
    /\ CallTimerFire(c)

\* The deferred calls of Call: timeout.Stop() and funcChain.Delete(key).
CallReturn(c) ==
    /\ callPc[c] = "ret"
    /\ chanMap' = Delete(callArg[c].key)
    /\ timer' = [timer EXCEPT ![c].st = IF timer[c].st = "none" THEN "none" ELSE "stopped"]
    /\ callPc' = [callPc EXCEPT ![c] = "done"]
    /\ UNCHANGED <<closeVars, connVars, writeMutex, wr, wire, writeFails, callArg, callRes,
                   userCloses, peerVars, readPc, disp, nDisp, chanVars, loopVars,
                   now, overlap, serverVars, conv, otherVars>>

(***************************************************************************)
(* Ready starts the read loop, the timeout loop and the ping loop.  The    *)
(* read loop sets the read deadline of its first read; the two loops       *)
(* create their timers and reach their select.                             *)
(***************************************************************************)
Ready ==
    /\ readPc = "off"
    /\ readPc' = "read"
    /\ readDeadline' = now + readTimeout
    /\ toPc' = IF IsClosed THEN "done" ELSE "select"
    /\ toTimer' = [st |-> "armed", at |-> now + socketTimeout]
    /\ pingPc' = IF IsClosed THEN "done" ELSE "select"
    /\ pingTimer' = [st |-> "armed", at |-> now + pingInterval]
    /\ UNCHANGED <<closeVars, conn, connCloseCount, writeMutex, chanMap, wr, wire,
                   writeFails, callVars, userCloses, peerVars, disp, nDisp, chanVars,
                   now, overlap, serverVars, conv, otherVars>>

\* Checks of the head without the check of the payload length.
FrameAcceptedAnyPayload(fr) ==
    /\ fr.ver = ProtocolVersion
    /\ fr.hlen <= maxHeaderBufferSize

\* The checks of the read loop on the 8 bytes of the head.
FrameAccepted(fr) ==
    /\ fr.ver = ProtocolVersion
    /\ fr.hlen <= maxHeaderBufferSize
    /\ fr.plen <= maxMessageSize

\* One iteration of the read loop: read a frame, check its head, and start
\* the goroutine that handles it (at records when the frame was read), then
\* start the next read with a new read deadline; return when a check fails.
readLoop ==
    /\ readPc = "read"
    /\ conn = "open"
    /\ inq # <<>>
    /\ inq' = Tail(inq)
    /\ IF FrameAccepted(Head(inq))
       THEN /\ nDisp' = nDisp + 1
            /\ disp' = [disp EXCEPT ![nDisp + 1] =
                           [pc |-> "reset1", fr |-> Head(inq), ch |-> 0, out |-> "",
                            at |-> now]]
            /\ readDeadline' = now + readTimeout
            /\ UNCHANGED readPc
       ELSE /\ readPc' = "exit"
            /\ UNCHANGED <<disp, nDisp, readDeadline>>
    /\ UNCHANGED <<closeVars, conn, connCloseCount, writeMutex, chanMap, wr, wire, writeFails, callVars,
                   userCloses, inSent, peer, chanVars, loopVars, now, overlap, serverVars, conv, otherVars>>

\* s.read returns an error while the conn is open (EOF, read deadline).
readError ==
    /\ readPc = "read"
    /\ conn = "open"
    /\ readPc' = "exit"
    /\ UNCHANGED <<closeVars, connVars, writeMutex, chanMap, wr, wire, writeFails, callVars,
                   userCloses, peerVars, disp, nDisp, chanVars, loopVars, now, overlap, serverVars, conv, otherVars>>

\* s.read returns the error of the read deadline: no byte has arrived for
\* readTimeout.
readDeadlineExpire ==
    /\ readDeadline <= now
    /\ inq = <<>>
    /\ readError

\* s.read returns bytes that do not complete a frame; the next s.read sets
\* a new read deadline.
readPartial ==
    /\ readPc = "read"
    /\ conn = "open"
    /\ readDeadline < now + readTimeout
    /\ readDeadline' = now + readTimeout
    /\ UNCHANGED <<closeVars, conn, connCloseCount, writeMutex, chanMap, wr, wire,
                   writeFails, callVars, userCloses, peerVars, readPc, disp, nDisp,
                   chanVars, loopVars, now, overlap, serverVars, conv, otherVars>>

\* s.read returns an error because s.conn.Close() was called.
readClosedConn ==
    /\ readPc = "read"
    /\ conn = "closed"
    /\ readPc' = "exit"
    /\ UNCHANGED <<closeVars, connVars, writeMutex, chanMap, wr, wire, writeFails, callVars,
                   userCloses, peerVars, disp, nDisp, chanVars, loopVars, now, overlap, serverVars, conv, otherVars>>

\* A read loop that returns without the deferred s.Close().
readLoopExitOpen ==
    /\ readPc = "exit"
    /\ readPc' = "done"
    /\ UNCHANGED <<closeVars, connVars, writeMutex, chanMap, wr, wire, writeFails, callVars,
                   userCloses, peerVars, disp, nDisp, chanVars, loopVars, now, overlap,
                   serverVars, conv, otherVars>>

\* defer s.Close() of the read loop.
readLoopExit ==
    /\ readPc = "exit"
    /\ readPc' = "done"
    /\ Close(wr, callPc, callRes, toPc)
    /\ UNCHANGED <<connVars, writeMutex, chanMap, wire, writeFails, callArg, timer,
                   userCloses, peerVars, disp, nDisp, chanVars, toTimer, pingTimer,
                   now, overlap, serverVars, conv, otherVars>>

(***************************************************************************)
(* resetTimeout: two sends on channels of capacity 1.  A send to a loop    *)
(* parked in its select is received at once and the loop resets its timer  *)
(* (Stop, drain if Stop returned false, Reset); otherwise the value goes   *)
(* into the buffer, and the send blocks while the buffer is full.  The     *)
(* ping loop that receives after its timer value was already consumed      *)
(* blocks in the drain <-timer.C.                                          *)
(***************************************************************************)
\* A timeout loop that receives the reset and leaves its timer as it is.
resetTimeout1NoRearm(d) ==
    /\ disp[d].pc = "reset1"
    /\ toPc = "select" \/ resetTimeoutChan = 0
    /\ resetTimeoutChan' = IF toPc = "select" THEN resetTimeoutChan ELSE 1
    /\ disp' = [disp EXCEPT ![d].pc = "reset2"]
    /\ UNCHANGED <<closeVars, connVars, writeMutex, chanMap, wr, wire, writeFails, callVars,
                   userCloses, peerVars, readPc, nDisp, resetPingTimeoutChan, toPc,
                   toTimer, pingPc, pingTimer, now, overlap, serverVars, conv, otherVars>>

resetTimeout1(d) ==
    /\ disp[d].pc = "reset1"
    /\ toPc = "select" \/ resetTimeoutChan = 0
    /\ resetTimeoutChan' = IF toPc = "select" THEN resetTimeoutChan ELSE 1
    /\ toTimer' = IF toPc = "select" THEN [st |-> "armed", at |-> now + socketTimeout]
                 ELSE toTimer
    /\ disp' = [disp EXCEPT ![d].pc = "reset2"]
    /\ UNCHANGED <<closeVars, connVars, writeMutex, chanMap, wr, wire, writeFails, callVars,
                   userCloses, peerVars, readPc, nDisp, resetPingTimeoutChan, toPc,
                   pingPc, pingTimer, now, overlap, serverVars, conv, otherVars>>

resetTimeout2(d) ==
    /\ disp[d].pc = "reset2"
    /\ pingPc = "select" \/ resetPingTimeoutChan = 0
    /\ resetPingTimeoutChan' = IF pingPc = "select" THEN resetPingTimeoutChan ELSE 1
    /\ pingPc' = IF pingPc = "select" /\ pingTimer.st = "empty" THEN "drain" ELSE pingPc
    /\ pingTimer' = IF pingPc = "select" /\ pingTimer.st = "armed"
                   THEN [st |-> "armed", at |-> now + pingInterval]
                   ELSE pingTimer
    /\ disp' = [disp EXCEPT ![d].pc = "handle"]
    /\ UNCHANGED <<closeVars, connVars, writeMutex, chanMap, wr, wire, writeFails, callVars,
                   userCloses, peerVars, readPc, nDisp, resetTimeoutChan, toPc, toTimer,
                   now, overlap, serverVars, conv, otherVars>>

(***************************************************************************)
(* handleReceivedMessage after resetTimeout: the switch on the type.       *)
(***************************************************************************)
dispDone(d, out) == [disp EXCEPT ![d].pc = "done", ![d].out = out]

handleReceivedMessage(d) ==
    /\ disp[d].pc = "handle"
    /\ LET fr == disp[d].fr
       IN IF fr.typ = typeClose
          THEN /\ Close(wr, callPc, callRes, toPc)
               /\ disp' = dispDone(d, "")
          ELSE /\ UNCHANGED <<closeVars, callPc, callRes, toPc, pingPc>>
               /\ CASE fr.typ = typePing ->
                         /\ wr' = [wr EXCEPT ![DispT(d)] = write(typePong, NoHeader, "nil")]
                         /\ disp' = [disp EXCEPT ![d].pc = "write"]
                    [] fr.typ = typePong ->
                         /\ disp' = dispDone(d, "")
                         /\ UNCHANGED wr
                    [] fr.typ = typeCall ->
                         /\ disp' = IF fr.hlen = 0 THEN dispDone(d, "decode call header")
                                    ELSE IF fr.hdr.fn \notin funcMap
                                    THEN dispDone(d, "requested function does not exists")
                                    ELSE [disp EXCEPT ![d].pc = "func"]
                         /\ UNCHANGED wr
                    [] fr.typ = typeCallReturn ->
                         /\ disp' = IF fr.hlen = 0
                                    THEN dispDone(d, "decode call return header")
                                    ELSE IF Get(fr.hdr.key) = 0
                                    THEN dispDone(d, "call return request failed")
                                    ELSE [disp EXCEPT ![d].pc = "send",
                                                      ![d].ch = Get(fr.hdr.key)]
                         /\ UNCHANGED wr
                    [] OTHER ->
                         /\ disp' = dispDone(d, "invalid request type")
                         /\ UNCHANGED wr
    /\ UNCHANGED <<connVars, writeMutex, chanMap, wire, writeFails, callArg, timer,
                   userCloses, peerVars, readPc, nDisp, chanVars, toTimer, pingTimer,
                   now, overlap, serverVars, conv, otherVars>>

\* handleCallRequest: the registered function returns (retData, retErr) and
\* the call-return frame is handed to write.
HandlerData == {"nil", "small", "big"}
HandlerErrs == {NilErr, errorsNew("ERROR"), errorsNew("")}

\* retErrString: the text of retErr, empty when retErr is nil.
retErrString(retErr) == IF retErr # NilErr THEN Error(retErr) ELSE ""

\* The calls handleCallRequest makes for a frame: the call hook when it is
\* set, the function with what it returns or its panic, the error hook.
CallHookCall(fn) == <<"callHook", "s", fn>>
FuncCall(fn, retErr) == <<"func", "s", fn, retErr>>
FuncPanic(fn) == <<"panic", "s", fn>>
ErrorHookCall(fn, retErr) == <<"errorHook", "s", fn, retErr>>

handleCallRequest(d, retData, retErr) ==
    /\ disp[d].pc = "func"
    /\ handled' = [handled EXCEPT ![d] =
                      (IF callHook THEN <<CallHookCall(disp[d].fr.hdr.fn)>> ELSE <<>>)
                      \o <<FuncCall(disp[d].fr.hdr.fn, retErr)>>]
    /\ wr' = [wr EXCEPT ![DispT(d)] =
                 write(typeCallReturn,
                       headerCallReturn(disp[d].fr.hdr.key, retErrString(retErr)), retData)]
    /\ disp' = [disp EXCEPT ![d].pc = "write"]
    /\ UNCHANGED <<closeVars, connVars, writeMutex, chanMap, wire, writeFails, callVars,
                   userCloses, peerVars, readPc, nDisp, chanVars, loopVars, now, overlap,
                   serverVars, conv, peerConn, lockVars, callHook, errorHook, timerVars>>

\* A panic of the registered function that is not recovered at the dispatch
\* goroutine: it ends the read loop and closes the socket.
handlerPanicUncaught(d) ==
    /\ disp[d].pc = "func"
    /\ disp' = dispDone(d, "catched panic")
    /\ handled' = [handled EXCEPT ![d] =
                      (IF callHook THEN <<CallHookCall(disp[d].fr.hdr.fn)>> ELSE <<>>)
                      \o <<FuncPanic(disp[d].fr.hdr.fn)>>]
    /\ readPc' = "done"
    /\ Close(wr, callPc, callRes, toPc)
    /\ UNCHANGED <<connVars, writeMutex, chanMap, wire, writeFails, callArg, timer,
                   userCloses, peerVars, nDisp, chanVars, toTimer, pingTimer,
                   now, overlap, serverVars, conv, peerConn, lockVars, callHook,
                   errorHook, timerVars>>

\* The registered function panics: recovered by handleReceivedMessage.
handlerPanic(d) ==
    /\ disp[d].pc = "func"
    /\ disp' = dispDone(d, "catched panic")
    /\ handled' = [handled EXCEPT ![d] =
                      (IF callHook THEN <<CallHookCall(disp[d].fr.hdr.fn)>> ELSE <<>>)
                      \o <<FuncPanic(disp[d].fr.hdr.fn)>>]
    /\ UNCHANGED <<closeVars, connVars, writeMutex, chanMap, wr, wire, writeFails, callVars,
                   userCloses, peerVars, readPc, nDisp, chanVars, loopVars, now, overlap,
                   serverVars, conv, peerConn, lockVars, callHook, errorHook, timerVars>>

\* retErr of the function that handleCallRequest has called for frame d.
retErrOf(d) == handled[d][Len(handled[d])][4]

\* The write of the pong or of the call return has returned.  After the
\* call return, when write returned nil: the error hook if retErr != nil.
dispWritten(d) ==
    /\ disp[d].pc = "write"
    /\ wr[DispT(d)].pc = "ret"
    /\ disp' = dispDone(d, wr[DispT(d)].res)
    /\ handled' = IF /\ disp[d].fr.typ = typeCall
                     /\ wr[DispT(d)].res = "ok"
                     /\ retErrOf(d) # NilErr
                     /\ errorHook
                  THEN [handled EXCEPT ![d] =
                           Append(@, ErrorHookCall(disp[d].fr.hdr.fn, retErrOf(d)))]
                  ELSE handled
    /\ UNCHANGED <<closeVars, connVars, writeMutex, chanMap, wr, wire, writeFails, callVars,
                   userCloses, peerVars, readPc, nDisp, chanVars, loopVars, now, overlap,
                   serverVars, conv, peerConn, lockVars, callHook, errorHook, timerVars>>

(***************************************************************************)
(* handleCallReturnRequest after Get: the non-blocking send on the         *)
(* channel (pc = "send"), then the send with a timeout of one second       *)
(* (pc = "retry").  A send succeeds at once when the Call is parked in its *)
(* select; the second send otherwise blocks (pc = "offer") until the Call  *)
(* receives or the timer fires.                                            *)
(***************************************************************************)
handleCallReturnRequest(d) ==
    /\ disp[d].pc \in {"send", "retry"}
    /\ LET c == disp[d].ch
       IN IF callPc[c] = "parked"
          THEN /\ callRes' = [callRes EXCEPT ![c] = Parked(retChainData(disp[d].fr))]
               /\ callPc' = [callPc EXCEPT ![c] = "ret"]
               /\ disp' = dispDone(d, "delivered")
          ELSE /\ disp' = [disp EXCEPT ![d].pc = IF disp[d].pc = "send" THEN "retry"
                                                 ELSE "offer"]
               /\ UNCHANGED <<callRes, callPc>>
    /\ UNCHANGED <<closeVars, connVars, writeMutex, chanMap, wr, wire, writeFails, callArg,
                   timer, userCloses, peerVars, readPc, nDisp, chanVars, loopVars,
                   now, overlap, serverVars, conv, otherVars>>

\* The timer of the second send fires: the reply is dropped.
callReturnRetryTimeout(d) ==
    /\ disp[d].pc = "offer"
    /\ disp' = dispDone(d, "call return request failed")
    /\ UNCHANGED <<closeVars, connVars, writeMutex, chanMap, wr, wire, writeFails, callVars,
                   userCloses, peerVars, readPc, nDisp, chanVars, loopVars, now, overlap, serverVars, conv, otherVars>>

(***************************************************************************)
(* timeoutLoop: its timer fires while it is parked; it calls Close and     *)
(* returns.                                                                *)
(***************************************************************************)
timeoutTimerFire ==
    /\ toPc = "select"
    /\ toTimer.st = "armed"
    /\ toPc' = "fired"
    /\ toTimer' = [toTimer EXCEPT !.st = "empty"]
    /\ UNCHANGED <<closeVars, connVars, writeMutex, chanMap, wr, wire, writeFails, callVars,
                   userCloses, peerVars, readPc, disp, nDisp, chanVars, pingPc, pingTimer,
                   now, overlap, serverVars, conv, otherVars>>

\* The timer fires when socketTimeout has elapsed since it was last reset.
timeoutTimerExpire ==
    /\ toTimer.at <= now
    /\ timeoutTimerFire

timeoutLoopFired ==
    /\ toPc = "fired"
    /\ Close(wr, callPc, callRes, "done")
    /\ UNCHANGED <<connVars, writeMutex, chanMap, wire, writeFails, callArg, timer,
                   userCloses, peerVars, readPc, disp, nDisp, chanVars, toTimer, pingTimer,
                   now, overlap, serverVars, conv, otherVars>>

(***************************************************************************)
(* pingLoop: its timer fires while it is parked and it writes a ping; when *)
(* write has returned it is back at its select.                            *)
(***************************************************************************)
pingTimerFire ==
    /\ pingPc = "select"
    /\ pingTimer.st = "armed"
    /\ pingPc' = "write"
    /\ pingTimer' = [pingTimer EXCEPT !.st = "empty"]
    /\ wr' = [wr EXCEPT ![PingT] = write(typePing, NoHeader, "nil")]
    /\ UNCHANGED <<closeVars, connVars, writeMutex, chanMap, wire, writeFails, callVars,
                   userCloses, peerVars, readPc, disp, nDisp, chanVars, toPc, toTimer,
                   now, overlap, serverVars, conv, otherVars>>

\* The timer fires when pingInterval has elapsed since it was last reset.
pingTimerExpire ==
    /\ pingTimer.at <= now
    /\ pingTimerFire

\* Back at the select, closeChan is closed: return.
pingLoopClosed ==
    /\ pingPc = "write"
    /\ wr[PingT].pc = "ret"
    /\ IsClosed
    /\ pingPc' = "done"
    /\ wr' = [wr EXCEPT ![PingT].pc = "idle"]
    /\ UNCHANGED <<closeVars, connVars, writeMutex, chanMap, wire, writeFails, callVars,
                   userCloses, peerVars, readPc, disp, nDisp, chanVars, toPc, toTimer,
                   pingTimer, now, overlap, serverVars, conv, otherVars>>

\* Back at the select, a reset is buffered: Stop returns false (the timer
\* has fired and its value was received) and the loop blocks in <-timer.C.
pingLoopReset ==
    /\ pingPc = "write"
    /\ wr[PingT].pc = "ret"
    /\ resetPingTimeoutChan = 1
    /\ resetPingTimeoutChan' = 0
    /\ pingPc' = "drain"
    /\ wr' = [wr EXCEPT ![PingT].pc = "idle"]
    /\ UNCHANGED <<closeVars, connVars, writeMutex, chanMap, wire, writeFails, callVars,
                   userCloses, peerVars, readPc, disp, nDisp, resetTimeoutChan, toPc,
                   toTimer, pingTimer, now, overlap, serverVars, conv, otherVars>>

\* Back at the select, no case can proceed: the loop parks.
pingLoopPark ==
    /\ pingPc = "write"
    /\ wr[PingT].pc = "ret"
    /\ ~IsClosed
    /\ resetPingTimeoutChan = 0
    /\ pingPc' = "select"
    /\ wr' = [wr EXCEPT ![PingT].pc = "idle"]
    /\ UNCHANGED <<closeVars, connVars, writeMutex, chanMap, wire, writeFails, callVars,
                   userCloses, peerVars, readPc, disp, nDisp, chanVars, toPc, toTimer,
                   pingTimer, now, overlap, serverVars, conv, otherVars>>

(***************************************************************************)
(* The peer.  It answers a call request it has received with a call-return *)
(* frame that carries the ReturnKey of the request, and it may send any    *)
(* other frame.                                                            *)
(***************************************************************************)
Frame(typ, hdr, pl, org) ==
    [typ |-> typ, hdr |-> hdr, pl |-> pl, org |-> org, ver |-> ProtocolVersion,
     hlen |-> HeaderLen(hdr), plen |-> Len(pl)]

\* Task t has written a whole frame.
FrameOnWire(t) == wr[t].total > 0 /\ wr[t].n = wr[t].total

\* The peer writes a frame, the max-th at most.
peerSendMax(fr, max) ==
    /\ conn = "open"
    /\ inSent < max
    /\ inSent' = inSent + 1
    /\ inq' = Append(inq, fr)
    /\ UNCHANGED <<closeVars, connVars, writeMutex, chanMap, wr, wire, writeFails, callVars,
                   userCloses, peer, readPc, disp, nDisp, chanVars, loopVars, now, overlap, serverVars, conv, otherVars>>

peerSend(fr) == peerSendMax(fr, MaxInbound)

peerReply(c, err, pl) ==
    /\ FrameOnWire(CallT(c))
    /\ peerSend(Frame(typeCallReturn, headerCallReturn(callArg[c].key, err), pl, c))

\* The peer answers when its handler has run for HandlerDelay.
peerReplyAfterDelay(c, err, pl) ==
    /\ wr[CallT(c)].at + HandlerDelay <= now
    /\ peerReply(c, err, pl)

(***************************************************************************)
(* The peer runs the same engine: its read loop parses the bytes on the    *)
(* conn into frames, its handleCallRequest runs the registered function on *)
(* a context holding the payload and writes the call-return frame.         *)
(***************************************************************************)
\* The one element of a set of one element.  An argument of a recursive
\* operator is bound through it, so that it is evaluated once.
Only(S) == CHOOSE x \in S : TRUE

RECURSIVE Concat(_)
Concat(bufs) ==
    Only({IF b = <<>> THEN <<>> ELSE Head(b) \o Concat(Tail(b)) : b \in {bufs}})

\* The bytes task t has written to the conn.
BytesOf(t) ==
    LET segs == SelectSeq(wire, LAMBDA x : x.t = t)
    IN Concat([i \in 1 .. Len(segs) |-> segs[i].b])

\* The bytes of a frame that write sends whole.
FrameBytes(w) == Concat(SegBufs(w))

\* readLoop on a byte stream: the frames it hands to handleReceivedMessage,
\* up to the first head it rejects or the first frame that is not whole.
RECURSIVE ReadStream(_)
ReadStream(stream) ==
    Only({IF Len(bs) < 8 THEN <<>>
          ELSE LET headerLen == bytesToUint16(SubSeq(bs, 3, 4))
                   payloadLen == bytesToUint32(SubSeq(bs, 5, 8))
                   end == 8 + headerLen + payloadLen
               IN IF \/ bs[1] # ProtocolVersion
                     \/ headerLen > maxHeaderBufferSize
                     \/ payloadLen > maxMessageSize
                     \/ Len(bs) < end
                  THEN <<>>
                  ELSE <<[ver |-> bs[1], typ |-> bs[2], hlen |-> headerLen,
                          plen |-> payloadLen,
                          hdr |-> IF headerLen > 0
                                  THEN DecodeHeader(SubSeq(bs, 9, 8 + headerLen))
                                  ELSE NoHeader,
                          pl |-> SubSeq(bs, 9 + headerLen, end), org |-> 0]>>
                       \o ReadStream(SubSeq(bs, end + 1, Len(bs)))
          : bs \in {stream}})

\* Context.Decode: the decoded value and the error.
ErrNoContextData == errorsNew("no context data available to decode")

\* Decode without the check for an empty payload.
ContextDecodeUnchecked(data) ==
    IF Decode(data) = "ErrDecode" THEN [v |-> "nil", err |-> errorsNew("decode: ErrDecode")]
    ELSE [v |-> Decode(data), err |-> NilErr]

ContextDecode(data) ==
    IF Len(data) = 0 THEN [v |-> "nil", err |-> ErrNoContextData]
    ELSE IF Decode(data) = "ErrDecode" THEN [v |-> "nil", err |-> errorsNew("decode: ErrDecode")]
    ELSE [v |-> Decode(data), err |-> NilErr]

\* The functions the peer has registered: what each returns (retData, retErr)
\* for a context with the payload data.  "echo" decodes its context and
\* returns the decoded value, or the error of Decode.
peerFuncs == {"echo", "err", "errData", "errEmpty", "errBig", "nilRet"}

PeerFunc(fn, data) ==
    CASE fn = "echo" -> [data |-> ContextDecode(data).v, err |-> ContextDecode(data).err]
      [] fn = "err" -> [data |-> "nil", err |-> errorsNew("ERROR")]
      [] fn = "errData" -> [data |-> "small", err |-> errorsNew("ERROR")]
      [] fn = "errEmpty" -> [data |-> "small", err |-> errorsNew("")]
      [] fn = "errBig" -> [data |-> "big", err |-> errorsNew("ERROR")]
      [] OTHER -> [data |-> "nil", err |-> NilErr]

\* The request of Call c as the read loop of the peer parses it.
PeerRequest(c) == Only({ReadStream(BytesOf(CallT(c)))[1]})

\* What the function of the peer returns for the request of Call c.
PeerReturn(c) == Only({PeerFunc(r.hdr.fn, r.pl) : r \in {PeerRequest(c)}})

\* handleCallRequest of the peer: the write of the call-return frame.
PeerWrite(c) ==
    write(typeCallReturn,
          headerCallReturn(PeerRequest(c).hdr.key, retErrString(PeerReturn(c).err)),
          PeerReturn(c).data)

(***************************************************************************)
(* The keep-alive of the peer, which runs the same loops: its Ready arms   *)
(* the timer of its pingLoop; every frame of ours it reads resets that     *)
(* timer (resetTimeout), and it answers a ping with a pong and a call of   *)
(* a registered function with the call return; its timer fires after       *)
(* pingInterval without a frame of ours and it sends a ping.               *)
(* As in pingLoop, a reset that comes after the timer has fired blocks the *)
(* loop in its drain, the next reset stays in the buffer of the channel,   *)
(* and the goroutine of every frame after that blocks in resetTimeout      *)
(* before it handles its frame.                                            *)
(***************************************************************************)
\* The whole frames on the stream, by their last conn.Write.
WireFrames == SelectSeq(wire, LAMBDA x : x.last /\ x.n = x.len)

peerReady ==
    /\ peer.pingSt = "off"
    /\ peer' = [peer EXCEPT !.pingSt = "armed", !.pingAt = now + pingInterval]
    /\ UNCHANGED <<closeVars, connVars, writeMutex, chanMap, wr, wire, writeFails, callVars,
                   userCloses, inq, inSent, readPc, disp, nDisp, chanVars, loopVars,
                   now, overlap, serverVars, conv, otherVars>>

peerHears ==
    /\ peer.pingSt # "off"
    /\ peer.heard < Len(WireFrames)
    /\ LET f == WireFrames[peer.heard + 1]
           blocked == peer.pingSt = "hung" /\ peer.buf = 1
           answer == IF blocked THEN <<>>
                     ELSE IF f.typ = typePing THEN <<Frame(typePong, NoHeader, <<>>, 0)>>
                     ELSE IF /\ f.typ = typeCall
                             /\ PeerRequest(f.t[2]).hdr.fn \in peerFuncs
                             /\ PeerWrite(f.t[2]).pc = "lock"
                     THEN <<[ReadStream(FrameBytes(PeerWrite(f.t[2])))[1]
                                EXCEPT !.org = f.t[2]]>>
                     ELSE <<>>
           pong == answer # <<>>
       IN /\ peer' = [peer EXCEPT !.heard = @ + 1,
                                  !.pingAt = IF peer.pingSt = "armed" THEN now + pingInterval
                                             ELSE @,
                                  !.pingSt = IF @ = "fired" THEN "hung" ELSE @,
                                  !.buf = IF peer.pingSt = "hung" THEN 1 ELSE @,
                                  !.starved = @ \/ (pong /\ inSent >= MaxInbound)]
          /\ IF pong /\ inSent < MaxInbound /\ conn = "open"
             THEN /\ inq' = inq \o answer
                  /\ inSent' = inSent + 1
             ELSE UNCHANGED <<inq, inSent>>
    /\ UNCHANGED <<closeVars, connVars, writeMutex, chanMap, wr, wire, writeFails, callVars,
                   userCloses, readPc, disp, nDisp, chanVars, loopVars, now, overlap, serverVars, conv, otherVars>>

peerPing ==
    /\ peer.pingSt = "armed"
    /\ peer.pingAt <= now
    /\ peer' = [peer EXCEPT !.pingSt = "fired", !.starved = @ \/ inSent >= MaxInbound]
    /\ IF inSent < MaxInbound /\ conn = "open"
       THEN /\ inq' = Append(inq, Frame(typePing, NoHeader, <<>>, 0))
            /\ inSent' = inSent + 1
       ELSE UNCHANGED <<inq, inSent>>
    /\ UNCHANGED <<closeVars, connVars, writeMutex, chanMap, wr, wire, writeFails, callVars,
                   userCloses, readPc, disp, nDisp, chanVars, loopVars, now, overlap, serverVars, conv, otherVars>>

\* Frames that are not answers to a call.
PeerFrames ==
    {Frame(t, NoHeader, <<>>, 0) : t \in {typeClose, typePing, typePong, 5}}
    \cup {Frame(typeCall, headerCall(f, k), <<>>, 0) : f \in {"foo", "bar"}, k \in {1}}
    \cup {Frame(typeCallReturn, NoHeader, <<>>, 0)}

\* Frames whose head the read loop rejects.
BadFrames ==
    {[Frame(typePing, NoHeader, <<>>, 0) EXCEPT !.ver = 1],
     [Frame(typePing, NoHeader, <<>>, 0) EXCEPT !.hlen = maxHeaderBufferSize + 1],
     [Frame(typePing, NoHeader, <<>>, 0) EXCEPT !.plen = maxMessageSize + 1]}

\* Time passes.
Tick ==
    /\ now < MaxTime
    /\ now' = now + 1
    /\ UNCHANGED <<closeVars, connVars, writeMutex, chanMap, wr, wire, writeFails, callVars,
                   userCloses, peerVars, readPc, disp, nDisp, chanVars, loopVars, overlap, serverVars, conv, otherVars>>

\* The times at which a timer that a goroutine waits for fires, or at which
\* the deadline of the pending read expires.
Deadlines ==
    (IF toPc = "select" /\ toTimer.st = "armed" THEN {toTimer.at} ELSE {})
    \cup (IF pingPc = "select" /\ pingTimer.st = "armed" THEN {pingTimer.at} ELSE {})
    \cup (IF readPc = "read" /\ conn = "open" THEN {readDeadline} ELSE {})
    \cup (IF peer.pingSt = "armed" THEN {peer.pingAt} ELSE {})
    \cup {timer[c].at : c \in {e \in Calls : callPc[e] \in {"select", "parked"}
                                              /\ timer[e].st = "armed"}}

\* Time passes up to the next of these times, or up to one second before it.
Elapse ==
    /\ Deadlines # {}
    /\ LET next == CHOOSE t \in Deadlines : \A u \in Deadlines : t <= u
       IN \E t \in {next - 1, next} :
             /\ now < t
             /\ t <= MaxTime
             /\ now' = t
    /\ UNCHANGED <<closeVars, connVars, writeMutex, chanMap, wr, wire, writeFails, callVars,
                   userCloses, peerVars, readPc, disp, nDisp, chanVars, loopVars, overlap, serverVars, conv, otherVars>>

(***************************************************************************)
(* Concurrent Calls and their replies: MaxCalls Calls without payload to a *)
(* function of the peer, whose timers may fire at any time, and a peer     *)
(* that answers the requests it has received in any order and at any time. *)
(***************************************************************************)
NextCall ==
    \/ Ready
    \/ \E c \in Calls : Call(c, "foo", "nil", "none")
    \/ \E c \in Calls : CallWritten(c)
    \/ \E c \in Calls : CallSelectTimeout(c)
    \/ \E c \in Calls, d \in Disps : CallSelectReply(c, d)
    \/ \E c \in Calls : CallSelectPark(c)
    \/ \E c \in Calls : CallTimerFire(c)
    \/ \E c \in Calls : CallReturn(c)
    \/ \E t \in Tasks : writeLock(t)
    \/ \E t \in Tasks : connWriteOk(t)
    \/ \E t \in Tasks : writeUnlock(t)
    \/ readLoop
    \/ \E d \in Disps : resetTimeout1(d)
    \/ \E d \in Disps : resetTimeout2(d)
    \/ \E d \in Disps : handleReceivedMessage(d)
    \/ \E d \in Disps : handleCallReturnRequest(d)
    \/ \E d \in Disps : callReturnRetryTimeout(d)
    \/ \E c \in Calls : peerReply(c, "", <<>>)

SpecCall == Init /\ [][NextCall]_vars

\* C1: a reply is delivered only to the Call whose key equals the ReturnKey
\* of the received call-return frame, and a Call never returns the reply
\* that answers a different Call that was in flight at the same time.
CorrelationByKey ==
    \A c \in Calls :
        callRes[c].kind = "reply" =>
            /\ callRes[c].rkey = callArg[c].key
            /\ callRes[c].org # c => <<callRes[c].org, c>> \notin overlap

\* Two Calls in flight at the same time have both returned their replies,
\* which arrived in the order opposite to the Calls.
CorrelationWitness ==
    /\ <<1, 2>> \in overlap
    /\ callRes[1].kind = "reply"
    /\ callRes[2].kind = "reply"
    /\ disp[1].fr.org = 2
    /\ disp[2].fr.org = 1

(***************************************************************************)
(* One Call with each kind of argument, on an engine that may be closed by *)
(* its user and whose transport may fail a write; the peer answers the     *)
(* request once, with or without an error text.                            *)
(***************************************************************************)
CallArgs ==
    {<<"foo", "nil", "none">>, <<"foo", "small", "dur">>, <<"foo", "big", "none">>,
     <<"foo", "chan", "none">>, <<"long", "nil", "none">>, <<"foo", "nil", "bad">>}

NextArgs ==
    \/ Ready
    \/ \E a \in CallArgs : Call(1, a[1], a[2], a[3])
    \/ CallWritten(1)
    \/ CallSelectClosed(1)
    \/ CallSelectTimeout(1)
    \/ \E d \in Disps : CallSelectReply(1, d)
    \/ CallSelectPark(1)
    \/ CallTimerFire(1)
    \/ CallReturn(1)
    \/ \E t \in Tasks : writeLock(t)
    \/ \E t \in Tasks : connWriteOk(t)
    \/ \E t \in Tasks : connWriteClosed(t)
    \/ \E t \in Tasks, k \in 0 .. 1 : connWriteErr(t, k)
    \/ \E t \in Tasks : writeUnlock(t)
    \/ \E t \in Tasks : writeDeferred(t)
    \/ closeGoroutine
    \/ userCloses = 0 /\ UserClose
    \/ readLoop
    \/ readClosedConn
    \/ readLoopExit
    \/ \E d \in Disps : resetTimeout1(d)
    \/ \E d \in Disps : resetTimeout2(d)
    \/ \E d \in Disps : handleReceivedMessage(d)
    \/ \E d \in Disps : handleCallReturnRequest(d)
    \/ \E d \in Disps : callReturnRetryTimeout(d)
    \/ \E err \in HandlerErrs : inSent = 0 /\ peerReply(1, retErrString(err), <<>>)

SpecArgs == Init /\ [][NextArgs]_vars

Returned(c) == callPc[c] \in {"ret", "done"}

\* C2 (as stated): every Call returns success, ErrTimeout, ErrClosed,
\* ErrMaxMsgSizeExceeded or the error of the peer, and nothing else.
CallOutcomesListed ==
    \A c \in Calls :
        Returned(c) =>
            callRes[c].kind \in {"reply", "ErrTimeout", "ErrClosed", "ErrMaxMsgSizeExceeded"}

\* C2 (amended): a Call has no outcome before it returns and exactly one
\* when it has returned: the reply of the peer (success, or the context
\* with the error text of the peer), ErrTimeout, ErrClosed,
\* ErrMaxMsgSizeExceeded, the encode error of the codec, "maximum header
\* size exceeded", "write: not all message bytes have been written", or the
\* failed assertion of the timeout argument; never "failed to assert return
\* data".
CallOutcomes ==
    \A c \in Calls :
        IF Returned(c)
        THEN callRes[c].kind \in {"reply", "ErrTimeout", "ErrClosed", "ErrMaxMsgSizeExceeded",
                                  "ErrEncode", "ErrHeaderSize", "ErrShortWrite",
                                  "ErrTimeoutArg"}
        ELSE callRes[c].kind = ""

\* A Call has returned the error of a write that the transport failed.
CallOutcomesWitness ==
    /\ callPc[1] = "done"
    /\ callRes[1].kind = "ErrShortWrite"
    /\ writeFails = 1

\* C10: a Call whose encoded payload is longer than maxMessageSize returns
\* ErrMaxMsgSizeExceeded, writes no byte, leaves no entry in the chain when
\* it has returned, and none of its steps closes the engine.
OversizeCallRejected ==
    /\ [](\A c \in Calls :
            callArg[c].data = "big" =>
                /\ Returned(c) => callRes[c].kind = "ErrMaxMsgSizeExceeded"
                /\ wr[CallT(c)].n = 0
                /\ \A i \in 1 .. Len(wire) : wire[i].t # CallT(c)
                /\ callPc[c] = "done" => c \notin Registered)
    /\ [][\A c \in Calls :
            callArg'[c].data = "big" /\ callPc'[c] # callPc[c] =>
                closeChan' = closeChan /\ wire' = wire]_vars

\* A Call with an oversize payload has returned and the engine is open.
OversizeCallWitness ==
    /\ callPc[1] = "done"
    /\ callArg[1].data = "big"
    /\ callRes[1].kind = "ErrMaxMsgSizeExceeded"
    /\ ~IsClosed
    /\ wire = <<>>

(***************************************************************************)
(* Every way to close an engine on which no Call is made: its user calls   *)
(* Close (MaxUserClose times), the peer sends a close frame, a read fails, *)
(* the timer of the timeout loop fires, and the transport fails a write of *)
(* the pinger or of the close frame.                                       *)
(***************************************************************************)
NextClose ==
    \/ Ready
    \/ \E t \in Tasks : writeLock(t)
    \/ \E t \in Tasks : connWriteOk(t)
    \/ \E t \in Tasks : connWriteClosed(t)
    \/ \E t \in Tasks, k \in 0 .. 1 : connWriteErr(t, k)
    \/ \E t \in Tasks : writeUnlock(t)
    \/ \E t \in Tasks : writeDeferred(t)
    \/ closeGoroutine
    \/ UserClose
    \/ readLoop
    \/ readError
    \/ readClosedConn
    \/ readLoopExit
    \/ \E d \in Disps : resetTimeout1(d)
    \/ \E d \in Disps : resetTimeout2(d)
    \/ \E d \in Disps : handleReceivedMessage(d)
    \/ timeoutTimerFire
    \/ timeoutLoopFired
    \/ pingTimerFire
    \/ pingLoopClosed
    \/ pingLoopReset
    \/ pingLoopPark
    \/ inSent = 0 /\ peerSend(Frame(typeClose, NoHeader, <<>>, 0))

SpecClose == Init /\ [][NextClose]_vars

\* A Close call has returned: of the user, of the read loop, of the timeout
\* loop, of the handler of a close frame, of a failed write.
SomeCloseReturned ==
    \/ userCloses > 0
    \/ readPc = "done"
    \/ toPc = "done"
    \/ \E d \in Disps : disp[d].pc = "done" /\ disp[d].fr.typ = typeClose
    \/ \E t \in Tasks : wr[t].res = "ErrShortWrite"

\* C5: however many times and from whichever task Close is called, the
\* close broadcast is published once and the conn is closed once (by the
\* goroutine of the first Close, when it has finished); IsClosed is false
\* before the first Close, true when any Close has returned, and stays true.
CloseOnce ==
    /\ [](/\ closeCount <= 1
          /\ connCloseCount <= 1
          /\ IsClosed <=> closeCount = 1
          /\ SomeCloseReturned => IsClosed
          /\ connCloseCount = 1 <=> wr[CloseT].pc = "done"
          /\ conn = "closed" <=> connCloseCount = 1)
    /\ [][IsClosed => IsClosed']_vars

\* The user has called Close twice, the read loop has called it, and the
\* broadcast and the release of the conn have happened once.
CloseOnceWitness ==
    /\ userCloses = 2
    /\ readPc = "done"
    /\ closeCount = 1
    /\ connCloseCount = 1

(***************************************************************************)
(* Writers around a Close of the user: the pinger, the pong for a ping of  *)
(* the peer and the sender of the close frame, with a transport that may   *)
(* fail a write.                                                           *)
(***************************************************************************)
NextShutdown ==
    \/ Ready
    \/ \E t \in Tasks : writeLock(t)
    \/ \E t \in Tasks : connWriteOk(t)
    \/ \E t \in Tasks : connWriteClosed(t)
    \/ \E t \in Tasks, k \in 0 .. 1 : connWriteErr(t, k)
    \/ \E t \in Tasks : writeUnlock(t)
    \/ \E t \in Tasks : writeDeferred(t)
    \/ closeGoroutine
    \/ userCloses = 0 /\ UserClose
    \/ readLoop
    \/ readClosedConn
    \/ readLoopExit
    \/ \E d \in Disps : resetTimeout1(d)
    \/ \E d \in Disps : resetTimeout2(d)
    \/ \E d \in Disps : handleReceivedMessage(d)
    \/ \E d \in Disps : dispWritten(d)
    \/ pingTimerFire
    \/ pingLoopClosed
    \/ pingLoopReset
    \/ pingLoopPark
    \/ inSent = 0 /\ peerSend(Frame(typePing, NoHeader, <<>>, 0))

SpecShutdown == Init /\ [][NextShutdown]_vars

NextCallClose ==
    \/ Ready
    \/ Call(1, "foo", "nil", "none")
    \/ CallWritten(1)
    \/ CallSelectClosed(1)
    \/ CallSelectPark(1)
    \/ CallReturn(1)
    \/ \E t \in Tasks : writeLock(t)
    \/ \E t \in Tasks : connWriteOk(t)
    \/ \E t \in Tasks : connWriteClosed(t)
    \/ \E t \in Tasks : writeUnlock(t)
    \/ \E t \in Tasks : writeDeferred(t)
    \/ closeGoroutine
    \/ userCloses = 0 /\ UserClose
    \/ readLoop
    \/ readError
    \/ readClosedConn
    \/ readLoopExit
    \/ \E d \in Disps : resetTimeout1(d)
    \/ \E d \in Disps : resetTimeout2(d)
    \/ \E d \in Disps : handleReceivedMessage(d)
    \/ \E d \in Disps : handleCallRequest(d, "nil", NilErr)
    \/ \E d \in Disps : dispWritten(d)
    \/ timeoutTimerFire
    \/ timeoutLoopFired
    \/ \E fr \in {Frame(typeClose, NoHeader, <<>>, 0), Frame(typePing, NoHeader, <<>>, 0),
                 Frame(typeCall, headerCall("foo", 1), <<>>, 0)} :
          inSent = 0 /\ peerSend(fr)

SpecCallClose == Init /\ [][NextCallClose]_vars

\* C3 (as stated): a Call started after the close broadcast was published
\* returns ErrClosed.
LateCallErrClosed ==
    \A c \in Calls :
        callArg[c].late /\ Returned(c) => callRes[c].kind = "ErrClosed"

\* C4: a Call that is parked in its select when the engine becomes closed
\* returns ErrClosed, and no Call is parked on a closed engine.
CloseWakesCall ==
    /\ [](IsClosed => \A c \in Calls : callPc[c] # "parked")
    /\ [][\A c \in Calls :
            callPc[c] = "parked" /\ IsClosed' =>
                callPc'[c] = "ret" /\ callRes'[c].kind = "ErrClosed"]_vars

\* A Call that was parked when the timeout loop closed the engine has
\* returned ErrClosed.
CloseWakesCallWitness ==
    /\ callPc[1] = "done"
    /\ callRes[1] = Parked(ErrRes("ErrClosed"))
    /\ toPc = "done"
    /\ toTimer.st = "empty"

(***************************************************************************)
(* Concurrent writers: a Call with a payload, the pinger, the pong for a   *)
(* ping of the peer, and the sender of the close frame after a Close of    *)
(* the user.  The transport fails no write.                                *)
(***************************************************************************)
NextWrite ==
    \/ Ready
    \/ Call(1, "foo", "small", "none")
    \/ CallWritten(1)
    \/ CallSelectClosed(1)
    \/ CallSelectPark(1)
    \/ CallReturn(1)
    \/ \E t \in Tasks : writeLock(t)
    \/ \E t \in Tasks : connWriteOk(t)
    \/ \E t \in Tasks : connWriteClosed(t)
    \/ \E t \in Tasks : writeUnlock(t)
    \/ \E t \in Tasks : writeDeferred(t)
    \/ closeGoroutine
    \/ userCloses = 0 /\ UserClose
    \/ readLoop
    \/ \E d \in Disps : resetTimeout1(d)
    \/ \E d \in Disps : resetTimeout2(d)
    \/ \E d \in Disps : handleReceivedMessage(d)
    \/ \E d \in Disps : dispWritten(d)
    \/ pingTimerFire
    \/ pingLoopClosed
    \/ pingLoopReset
    \/ pingLoopPark
    \/ inSent = 0 /\ peerSend(Frame(typePing, NoHeader, <<>>, 0))

SpecWrite == Init /\ [][NextWrite]_vars

\* The positions of the stream that hold bytes written by task t.
SegsOf(t) == {i \in 1 .. Len(wire) : wire[i].t = t}

\* C7: the bytes of a frame are contiguous on the stream and in the order
\* head, headerLen, payloadLen, header, payload; a frame whose write
\* returned nil is whole; and every frame that is followed by bytes of
\* another frame is whole.
FramesContiguous ==
    /\ \A i, j \in 1 .. Len(wire) :
          i < j /\ wire[i].t = wire[j].t => \A k \in i .. j : wire[k].t = wire[i].t
    /\ \A i \in 1 .. Len(wire) :
          wire[i].i = IF i > 1 /\ wire[i - 1].t = wire[i].t THEN wire[i - 1].i + 1 ELSE 1
    /\ \A t \in Tasks :
          wr[t].res = "ok" =>
              /\ Cardinality(SegsOf(t)) = Len(SegLens(wr[t]))
              /\ \A i \in SegsOf(t) : wire[i].n = SegLens(wr[t])[wire[i].i]
    /\ \A i \in 1 .. Len(wire) - 1 :
          wire[i].t # wire[i + 1].t =>
              /\ wire[i].i = Len(SegLens(wr[wire[i].t]))
              /\ wire[i].n = wire[i].len

\* The Call, the pinger, the pong and the close sender have each written a
\* whole frame.
FramesContiguousWitness ==
    /\ wr[CallT(1)].res = "ok"
    /\ wr[PingT].res = "ok"
    /\ wr[DispT(1)].res = "ok"
    /\ wr[CloseT].res = "ok"
    /\ Len(wire) = 5 + 3 + 3 + 3

(***************************************************************************)
(* The read loop and every kind of frame: the well-formed frames of each   *)
(* type, frames whose head the checks reject, and answers to a Call with   *)
(* payloads up to and over the maximum message size.                       *)
(***************************************************************************)
NextRead ==
    \/ Ready
    \/ Call(1, "foo", "nil", "none")
    \/ CallWritten(1)
    \/ CallSelectClosed(1)
    \/ \E d \in Disps : CallSelectReply(1, d)
    \/ CallSelectPark(1)
    \/ CallReturn(1)
    \/ \E t \in Tasks : writeLock(t)
    \/ \E t \in Tasks : connWriteOk(t)
    \/ \E t \in Tasks : connWriteClosed(t)
    \/ \E t \in Tasks : writeUnlock(t)
    \/ \E t \in Tasks : writeDeferred(t)
    \/ closeGoroutine
    \/ readLoop
    \/ readClosedConn
    \/ readLoopExit
    \/ \E d \in Disps : resetTimeout1(d)
    \/ \E d \in Disps : resetTimeout2(d)
    \/ \E d \in Disps : handleReceivedMessage(d)
    \/ \E d \in Disps, data \in HandlerData, err \in HandlerErrs :
          handleCallRequest(d, data, err)
    \/ \E d \in Disps : handlerPanic(d)
    \/ \E d \in Disps : dispWritten(d)
    \/ \E d \in Disps : handleCallReturnRequest(d)
    \/ \E d \in Disps : callReturnRetryTimeout(d)
    \/ \E fr \in PeerFrames \cup BadFrames : peerSend(fr)
    \/ \E v \in {"nil", "small", "big"} : peerReply(1, "", Encode(v))

SpecRead == Init /\ [][NextRead]_vars

\* C8: every frame handed to a dispatch goroutine has version 0, a header
\* of at most 10*1024 bytes and a payload of at most maxMessageSize bytes,
\* and so has every reply a Call returns.
DispatchedFramesValid ==
    /\ \A d \in Disps :
          disp[d].pc # "none" =>
              /\ disp[d].fr.ver = 0
              /\ disp[d].fr.hlen <= 10 * 1024
              /\ disp[d].fr.plen <= maxMessageSize
    /\ \A c \in Calls :
          callRes[c].kind = "reply" => Len(callRes[c].data) <= maxMessageSize

\* The read loop has read two frames, has dispatched the first and has
\* returned on the second without dispatching it; the Call that was parked
\* has returned ErrClosed.
DispatchedFramesWitness ==
    /\ inSent = 2
    /\ inq = <<>>
    /\ nDisp = 1
    /\ readPc = "done"
    /\ conn = "open"
    /\ callRes[1] = Parked(ErrRes("ErrClosed"))

(***************************************************************************)
(* Timeouts (TestSocketTimeout): a Call with the call timeout of the       *)
(* engine to a function of the peer that takes HandlerDelay, and when it   *)
(* has returned the same Call with the timeout ArgTimeout, where           *)
(* callTimeout < HandlerDelay < ArgTimeout.  The steps of the program take *)
(* no time: time passes only when no step is possible, a timer fires when  *)
(* its duration has elapsed, and the peer answers a request HandlerDelay   *)
(* after it was written.                                                   *)
(***************************************************************************)
\* The peer has answered Call c.
Replied(c) ==
    \/ \E i \in 1 .. Len(inq) : inq[i].org = c
    \/ \E d \in Disps : disp[d].pc # "none" /\ disp[d].fr.org = c

TimedSteps ==
    \/ Ready
    \/ Call(1, "foo", "nil", "none")
    \/ callPc[1] = "done" /\ Call(2, "foo", "nil", "dur")
    \/ \E c \in Calls : CallWritten(c)
    \/ \E c \in Calls : CallSelectPark(c)
    \/ \E c \in Calls : CallTimerExpire(c)
    \/ \E c \in Calls : CallReturn(c)
    \/ \E t \in Tasks : writeLock(t)
    \/ \E t \in Tasks : connWriteOk(t)
    \/ \E t \in Tasks : writeUnlock(t)
    \/ readLoop
    \/ \E d \in Disps : resetTimeout1(d)
    \/ \E d \in Disps : resetTimeout2(d)
    \/ \E d \in Disps : handleReceivedMessage(d)
    \/ \E d \in Disps : handleCallReturnRequest(d)
    \/ \E c \in Calls : ~Replied(c) /\ peerReplyAfterDelay(c, "", <<>>)

NextTimed ==
    \/ TimedSteps
    \/ ~ENABLED TimedSteps /\ Tick

SpecTimed == Init /\ [][NextTimed]_vars

\* C9 (as stated): the Call with the call timeout of the engine returns
\* ErrTimeout, the later Call with the longer timeout returns success with
\* the reply to its own request, the late reply to the first Call is
\* delivered to no Call, and the engine stays open.
CallTimeoutAndLateReply ==
    /\ \A c \in Calls :
          Returned(c) /\ callArg[c].targ = "none" => callRes[c].kind = "ErrTimeout"
    /\ \A c \in Calls :
          Returned(c) /\ callArg[c].targ = "dur" =>
              callRes[c].kind = "reply" /\ callRes[c].err = NilErr /\ callRes[c].org = c
    /\ \A d \in Disps :
          disp[d].pc = "done" /\ disp[d].fr.org # 0
              /\ callRes[disp[d].fr.org].kind = "ErrTimeout" => disp[d].out # "delivered"
    /\ ~IsClosed

(***************************************************************************)
(* Inbound calls to a registered function that panics or returns: the peer *)
(* sends MaxInbound call requests, and each is served by its own dispatch  *)
(* goroutine.  Nobody closes the engine and the transport fails no write.  *)
(***************************************************************************)
NextPanic ==
    \/ Ready
    \/ \E t \in Tasks : writeLock(t)
    \/ \E t \in Tasks : connWriteOk(t)
    \/ \E t \in Tasks : writeUnlock(t)
    \/ readLoop
    \/ \E d \in Disps : resetTimeout1(d)
    \/ \E d \in Disps : resetTimeout2(d)
    \/ \E d \in Disps : handleReceivedMessage(d)
    \/ \E d \in Disps, data \in {"nil", "small"} : handleCallRequest(d, data, NilErr)
    \/ \E d \in Disps : handlerPanic(d)
    \/ \E d \in Disps : dispWritten(d)
    \/ \E k \in Keys : peerSend(Frame(typeCall, headerCall("foo", k), <<>>, 0))

SpecPanic == Init /\ [][NextPanic]_vars

\* The dispatch goroutine d has recovered a panic of its handler.
Panicked(d) == disp[d].pc = "done" /\ disp[d].out = "catched panic"

\* C11: a handler that panics while it serves an inbound call does not
\* close the engine and does not stop the read loop (the step of the panic
\* changes neither, and both stay as they are afterwards), and a call that
\* is served after a panic and whose handler returns gets its call-return
\* frame written whole.
PanicIsContained ==
    /\ []((\E d \in Disps : Panicked(d)) =>
            /\ ~IsClosed
            /\ conn = "open"
            /\ readPc = "read"
            /\ \A e \in Disps :
                  disp[e].pc = "done" /\ ~Panicked(e) =>
                      /\ disp[e].out = "ok"
                      /\ FrameOnWire(DispT(e))
                      /\ wr[DispT(e)].typ = typeCallReturn
                      /\ wr[DispT(e)].hdr.key = disp[e].fr.hdr.key)
    /\ [][\A d \in Disps :
            ~Panicked(d) /\ Panicked(d)' =>
                closeChan' = closeChan /\ readPc' = readPc /\ conn' = conn]_vars

\* The handler of the first call has panicked, and the second call, read
\* after that, was served and answered.
PanicIsContainedWitness ==
    /\ Panicked(1)
    /\ disp[2].pc = "done"
    /\ disp[2].out = "ok"
    /\ FrameOnWire(DispT(2))
    /\ ~IsClosed

(***************************************************************************)
(* The idle timeout: a ready engine on which no Call is made, and a peer   *)
(* that sends MaxInbound frames of any type at any time, and at any time   *)
(* bytes that do not complete a frame.  The steps of the program take no   *)
(* time: time passes only when no step is possible, up to the next time at *)
(* which a timer fires or a deadline expires, or to a second before it.    *)
(***************************************************************************)
IdleFrames ==
    {Frame(t, NoHeader, <<>>, 0) : t \in {typePing, typePong}}
    \cup {Frame(typeCall, headerCall("bar", 1), <<>>, 0)}

IdleSteps ==
    \/ Ready
    \/ \E t \in Tasks : writeLock(t)
    \/ \E t \in Tasks : connWriteOk(t)
    \/ \E t \in Tasks : connWriteClosed(t)
    \/ \E t \in Tasks : writeUnlock(t)
    \/ \E t \in Tasks : writeDeferred(t)
    \/ closeGoroutine
    \/ readLoop
    \/ readDeadlineExpire
    \/ readClosedConn
    \/ readLoopExit
    \/ \E d \in Disps : resetTimeout1(d)
    \/ \E d \in Disps : resetTimeout2(d)
    \/ \E d \in Disps : handleReceivedMessage(d)
    \/ \E d \in Disps : dispWritten(d)
    \/ timeoutTimerExpire
    \/ timeoutLoopFired
    \/ pingTimerExpire
    \/ pingLoopReset
    \/ pingLoopPark

NextIdle ==
    \/ IdleSteps
    \/ \E fr \in IdleFrames : peerSend(fr)
    \/ readPartial
    \/ ~ENABLED IdleSteps /\ Elapse

SpecIdle == Init /\ [][NextIdle]_vars

\* The times at which a complete frame was received.
FrameTimes == {disp[d].at : d \in {e \in Disps : disp[e].pc # "none"}}

\* C12: the timer of the timeout loop fires only when socketTimeout has
\* passed during which no complete frame was received (so it never fires
\* while frames arrive with gaps shorter than socketTimeout), and the engine
\* is closed in every state in which more than socketTimeout has passed
\* since the last complete frame (or since Ready).
IdleTimeoutExact ==
    /\ toPc = "fired" =>
          /\ now >= socketTimeout
          /\ \A t \in FrameTimes : t <= now - socketTimeout \/ t = now
    /\ (\A t \in FrameTimes : now > t + socketTimeout) /\ now > socketTimeout => IsClosed

\* Two frames were received, the first within socketTimeout of Ready and
\* the second within socketTimeout of the first, and the timeout loop
\* closes the engine socketTimeout after the second, the read loop still
\* reading.
IdleTimeoutWitness ==
    /\ nDisp = 2
    /\ disp[2].at > socketTimeout
    /\ toPc = "fired"
    /\ now = disp[2].at + socketTimeout
    /\ readPc = "read"
    /\ ~IsClosed

\* The ping loop receives a reset in this step: from a sender while it is
\* parked in its select, or from the buffer of the channel.
PingResetReceived ==
    \/ pingPc = "select" /\ \E d \in Disps : disp[d].pc = "reset2" /\ disp'[d].pc = "handle"
    \/ resetPingTimeoutChan = 1 /\ resetPingTimeoutChan' = 0

\* C14 (as stated): while the engine is open the ping loop is never blocked
\* in the reset of its timer, and every reset it receives - also one that
\* it receives after its timer has fired and the ping was sent - leaves it
\* at its select with the timer armed for the full pingInterval.
PingLoopProgress ==
    /\ [](~IsClosed => pingPc # "drain")
    /\ [][PingResetReceived =>
            /\ pingPc' = "select"
            /\ pingTimer' = [st |-> "armed", at |-> now + pingInterval]]_vars

(***************************************************************************)
(* Two ready engines on a healthy stream and no Call: this engine with its *)
(* three loops, and the keep-alive of the peer.  Time passes as in the     *)
(* scenario of the idle timeout.                                           *)
(***************************************************************************)
KeepAliveSteps ==
    \/ Ready
    \/ \E t \in Tasks : writeLock(t)
    \/ \E t \in Tasks : connWriteOk(t)
    \/ \E t \in Tasks : writeUnlock(t)
    \/ closeGoroutine
    \/ readLoop
    \/ readDeadlineExpire
    \/ readLoopExit
    \/ \E d \in Disps : resetTimeout1(d)
    \/ \E d \in Disps : resetTimeout2(d)
    \/ \E d \in Disps : handleReceivedMessage(d)
    \/ \E d \in Disps : dispWritten(d)
    \/ pingTimerExpire
    \/ pingLoopReset
    \/ pingLoopPark
    \/ peerReady
    \/ peerHears
    \/ peerPing

NextKeepAlive ==
    \/ KeepAliveSteps
    \/ ~ENABLED KeepAliveSteps /\ Elapse

SpecKeepAlive == Init /\ [][NextKeepAlive]_vars

\* C13 (as stated): with no Call and a healthy stream, neither the read
\* deadline nor the idle timeout ever closes the engine, as long as the
\* peer could send every ping and pong it had to send.
IdleEnginesStayOpen ==
    ~peer.starved => ~IsClosed /\ conn = "open" /\ readPc # "done"

(***************************************************************************)
(* The peer as the server of Calls: the call-return frame it writes is     *)
(* parsed by our read loop.                                                *)
(***************************************************************************)
\* A peer that answers a request for a function it has not registered with
\* a call-return frame that carries an error.
peerServeUnknown(c) ==
    /\ ReadStream(BytesOf(CallT(c))) # <<>>
    /\ ~Replied(c)
    /\ PeerRequest(c).typ = typeCall
    /\ IF PeerRequest(c).hdr.fn \in peerFuncs
       THEN /\ PeerWrite(c).pc = "lock"
            /\ peerSend([ReadStream(FrameBytes(PeerWrite(c)))[1] EXCEPT !.org = c])
       ELSE peerSend(Frame(typeCallReturn,
                           headerCallReturn(PeerRequest(c).hdr.key, "unknown function"),
                           <<>>, c))

\* The peer serves the request of Call c: the function is looked up and
\* called, and the call-return frame, if write sends one, arrives.
peerServe(c) ==
    /\ ReadStream(BytesOf(CallT(c))) # <<>>
    /\ ~Replied(c)
    /\ PeerRequest(c).typ = typeCall
    /\ PeerRequest(c).hdr.fn \in peerFuncs
    /\ PeerWrite(c).pc = "lock"
    /\ peerSend([ReadStream(FrameBytes(PeerWrite(c)))[1] EXCEPT !.org = c])

\* The (id, args[0]) of the first Call made to the peer: to the functions
\* that return an error and to a function that is not registered
\* (ServeArgs), or to the functions that return no error (EchoArgs).  The
\* second Call is to "echo".
ServeArgs ==
    {<<"err", "nil">>, <<"errData", "nil">>, <<"errEmpty", "nil">>, <<"errBig", "nil">>,
     <<"nofunc", "small">>}

EchoArgs == {<<"echo", "small">>, <<"echo", "pair">>, <<"echo", "nil">>, <<"nilRet", "small">>}

ServeSteps ==
    \/ Ready
    \/ Call(2, "echo", "pair", "none")
    \/ \E c \in Calls : CallWritten(c)
    \/ \E c \in Calls : CallSelectTimeout(c)
    \/ \E c \in Calls, d \in Disps : CallSelectReply(c, d)
    \/ \E c \in Calls : CallSelectPark(c)
    \/ \E c \in Calls : CallTimerFire(c)
    \/ \E c \in Calls : CallReturn(c)
    \/ \E t \in Tasks : writeLock(t)
    \/ \E t \in Tasks : connWriteOk(t)
    \/ \E t \in Tasks : writeUnlock(t)
    \/ readLoop
    \/ \E d \in Disps : resetTimeout1(d)
    \/ \E d \in Disps : resetTimeout2(d)
    \/ \E d \in Disps : handleReceivedMessage(d)
    \/ \E d \in Disps : handleCallReturnRequest(d)
    \/ \E d \in Disps : callReturnRetryTimeout(d)
    \/ \E c \in Calls : peerServe(c)

NextServe ==
    \/ \E a \in ServeArgs : Call(1, a[1], a[2], "none")
    \/ inSent = 0 /\ peerSend(Frame(typeCall, headerCall("bar", 1), <<1>>, 0))
    \/ ServeSteps

NextEcho ==
    \/ \E a \in EchoArgs : Call(1, a[1], a[2], "none")
    \/ ServeSteps

SpecEcho == Init /\ [][NextEcho]_vars

SpecServe == Init /\ [][NextServe]_vars

\* Call c has returned the reply that the peer wrote for its own request.
GotOwnReply(c) ==
    callPc[c] \in {"ret", "done"} /\ callRes[c].kind = "reply" /\ callRes[c].org = c

\* C15: when the handler returned a non-nil error, the Call that
\* gets the reply returns a context together with an error whose text is the
\* text of the handler's error, and the context carries the encoded payload
\* of the reply value, if the handler returned one.
HandlerErrorReturned ==
    \A c \in Calls :
        GotOwnReply(c) /\ PeerReturn(c).err # NilErr =>
            /\ callRes[c].err # NilErr
            /\ Error(callRes[c].err) = Error(PeerReturn(c).err)
            /\ callRes[c].data =
                  (IF PeerReturn(c).data = "nil" THEN <<>> ELSE Encode(PeerReturn(c).data))

\* All bytes on the conn, in the order they were written.
Stream == Concat([i \in 1 .. Len(wire) |-> wire[i].b])

\* The frame that write was given by task t, as a read loop delivers it.
Written(t) ==
    [ver |-> ProtocolVersion, typ |-> wr[t].typ, hlen |-> HeaderLen(wr[t].hdr),
     plen |-> Len(wr[t].pl), hdr |-> wr[t].hdr, pl |-> wr[t].pl, org |-> 0]

\* C16: round trip of a Call with value V to a function that decodes its
\* context and returns the decoded value.  The read loop of the peer parses
\* from the bytes on the conn the type, header and payload that write was
\* given; the payload the function sees is Encode(V); the context the Call
\* returns holds the bytes the reply of the function encodes to; and the
\* value the caller decodes from it is V.
RoundTrip ==
    /\ \A t \in Tasks : FrameOnWire(t) =>
          /\ ReadStream(BytesOf(t)) = <<Written(t)>>
          /\ \E i \in 1 .. Len(ReadStream(Stream)) : ReadStream(Stream)[i] = Written(t)
    /\ \A c \in Calls :
          callArg[c].id = "echo" /\ callArg[c].data # "nil" =>
             /\ FrameOnWire(CallT(c)) =>
                   /\ PeerRequest(c).typ = typeCall
                   /\ PeerRequest(c).hdr = headerCall("echo", callArg[c].key)
                   /\ PeerRequest(c).pl = Encode(callArg[c].data)
                   /\ PeerReturn(c) = [data |-> callArg[c].data, err |-> NilErr]
             /\ GotOwnReply(c) =>
                   /\ callRes[c].err = NilErr
                   /\ callRes[c].data = Encode(PeerReturn(c).data)
                   /\ ContextDecode(callRes[c].data) = [v |-> callArg[c].data, err |-> NilErr]

RoundTripWitness ==
    /\ GotOwnReply(1) /\ callArg[1].id = "echo" /\ callArg[1].data = "small"
    /\ ContextDecode(callRes[1].data).v = "small"
    /\ GotOwnReply(2) /\ ContextDecode(callRes[2].data).v = "pair"

\* The payloads of the contexts that exist: of the requests the peer has
\* parsed and of the replies the Calls have returned.
ContextPayloads ==
    {PeerRequest(c).pl : c \in {e \in Calls : FrameOnWire(CallT(e))}}
        \cup {callRes[c].data : c \in {e \in Calls : GotOwnReply(e)}}

\* C20: Context.Decode returns ErrNoContextData exactly when the payload of
\* the context is empty, and the result of the codec otherwise; the context
\* a Call returns for a reply whose handler returned a nil value has an
\* empty payload, and its Decode fails with ErrNoContextData.
DecodeOfEmptyContext ==
    /\ \A data \in ContextPayloads :
          /\ ContextDecode(data).err = ErrNoContextData <=> Len(data) = 0
          /\ Len(data) > 0 =>
                /\ ContextDecode(data).v = Decode(data)
                /\ ContextDecode(data).err = NilErr
    /\ ContextDecode(<<9>>) = [v |-> "nil", err |-> errorsNew("decode: ErrDecode")]
    /\ \A c \in Calls :
          GotOwnReply(c) /\ PeerReturn(c).data = "nil" =>
             /\ callRes[c].data = <<>>
             /\ ContextDecode(callRes[c].data).err = ErrNoContextData

DecodeOfEmptyContextWitness ==
    /\ GotOwnReply(1)
    /\ callArg[1].id = "nilRet"
    /\ callRes[1].err = NilErr
    /\ callRes[1].data = <<>>
    /\ ContextDecode(callRes[1].data).err = ErrNoContextData
    /\ <<3, 4>> \in ContextPayloads

\* A dispatch goroutine whose frame is a call of a function that is not in
\* funcMap.
UnknownCall(d) ==
    /\ disp[d].pc # "none"
    /\ disp[d].fr.typ = typeCall
    /\ disp[d].fr.hlen > 0
    /\ disp[d].fr.hdr.fn \notin funcMap

OnClose(h) ==
    /\ hooks[h].pc = "none"
    /\ hooks' = [hooks EXCEPT ![h].pc = "wait", ![h].late = IsClosed]
    /\ UNCHANGED <<closeChan, closeCount, connVars, writeMutex, chanMap, wr, wire,
                   writeFails, callVars, userCloses, peerVars, readPc, disp, nDisp,
                   chanVars, loopVars, now, overlap, serverVars, conv, otherVars>>

\* A goroutine that calls f(s) without the receive from closeChan.
hookRunUnblocked(h) ==
    /\ hooks[h].pc = "wait"
    /\ hooks' = [hooks EXCEPT ![h].pc = "done", ![h].calls = hooks[h].calls + 1,
                              ![h].arg = "s"]
    /\ UNCHANGED <<closeChan, closeCount, connVars, writeMutex, chanMap, wr, wire,
                   writeFails, callVars, userCloses, peerVars, readPc, disp, nDisp,
                   chanVars, loopVars, now, overlap, serverVars, conv, otherVars>>

\* <-s.closeChan returns once the channel is closed; f(s).
hookRun(h) ==
    /\ hooks[h].pc = "wait"
    /\ IsClosed
    /\ hooks' = [hooks EXCEPT ![h].pc = "done", ![h].calls = hooks[h].calls + 1,
                              ![h].arg = "s"]
    /\ UNCHANGED <<closeChan, closeCount, connVars, writeMutex, chanMap, wr, wire,
                   writeFails, callVars, userCloses, peerVars, readPc, disp, nDisp,
                   chanVars, loopVars, now, overlap, serverVars, conv, otherVars>>

(***************************************************************************)
(* MaxHooks OnClose calls at any time around the Close calls of the user   *)
(* and of the read loop.  The goroutines of OnClose are scheduled fairly.  *)
(***************************************************************************)
NextHooks ==
    \/ Ready
    \/ \E h \in Hooks : OnClose(h)
    \/ \E h \in Hooks : hookRun(h)
    \/ UserClose
    \/ readError
    \/ readLoopExit
    \/ \E t \in Tasks : writeLock(t)
    \/ \E t \in Tasks : connWriteOk(t)
    \/ \E t \in Tasks : writeUnlock(t)
    \/ closeGoroutine

SpecHooks == Init /\ [][NextHooks]_vars /\ \A h \in Hooks : WF_vars(hookRun(h))

\* C18: every function given to OnClose, before or after the socket is
\* closed, is called exactly once with the socket as its argument: never
\* before closeChan is closed, not again by a later Close, and once
\* closeChan is closed it is called eventually.
HooksOnce ==
    /\ [](\A h \in Hooks :
            /\ hooks[h].calls <= 1
            /\ hooks[h].calls = 1 => IsClosed /\ hooks[h].arg = "s" /\ hooks[h].pc = "done")
    /\ [][\A h \in Hooks : hooks'[h].calls # hooks[h].calls => IsClosed]_vars
    /\ \A h \in Hooks : (hooks[h].pc = "wait" /\ IsClosed) ~> (hooks[h].calls = 1)

HooksOnceWitness ==
    /\ \A h \in Hooks : hooks[h].calls = 1
    /\ \E h \in Hooks : hooks[h].late
    /\ \E h \in Hooks : ~hooks[h].late
    /\ userCloses = 2
    /\ readPc = "done"
    /\ closeCount = 1

(***************************************************************************)
(* Calls on a live connection between two engines that have both called    *)
(* Ready: MaxCalls Calls to the function "echo" of the peer and the        *)
(* keep-alive of both sides.  The first Call is made at any instant, when  *)
(* the engine is at rest, the others at any point while the Call before    *)
(* them is in flight.  The function returns at once.  Program steps take   *)
(* no time, so a Call has parked in its select before its timer fires.     *)
(***************************************************************************)
LiveSteps ==
    \/ KeepAliveSteps
    \/ \E c \in Calls : CallWritten(c)
    \/ \E c \in Calls : CallSelectClosed(c)
    \/ \E c \in Calls, d \in Disps : CallSelectReply(c, d)
    \/ \E c \in Calls : CallSelectPark(c)
    \/ \E c \in Calls : CallTimerExpire(c)
    \/ \E c \in Calls : CallReturn(c)
    \/ \E d \in Disps : handleCallReturnRequest(d)

NextLive ==
    \/ LiveSteps
    \/ \E c \in Calls :
          /\ ~IsClosed
          /\ IF c = 1 THEN ~ENABLED LiveSteps ELSE callPc[c - 1] \notin {"idle", "done"}
          /\ Call(c, "echo", "small", "none")
    \/ ~ENABLED LiveSteps /\ Elapse

SpecLive == Init /\ [][NextLive]_vars

\* C17: on a connection that stays open, every Call to a registered function
\* that returns within the call timeout returns the reply of that function
\* and no error: it is not ended by ErrTimeout.
LiveCallsSucceed ==
    \A c \in Calls :
        /\ callPc[c] \in {"ret", "done"}
        /\ ~callArg[c].late
        /\ ~IsClosed /\ conn = "open" /\ readPc = "read"
        /\ ~peer.starved
        => /\ callRes[c].kind = "reply"
           /\ callRes[c].org = c
           /\ callRes[c].err = NilErr
           /\ callRes[c].data = Encode("small")

(***************************************************************************)
(* The Server.  Each accepted connection becomes a Socket of which the     *)
(* server sees the id and the closeChan; a Socket closes for any of the    *)
(* reasons of Socket.Close (sockClose).                                    *)
(***************************************************************************)
socketVars == <<closeVars, connVars, writeMutex, chanMap, wr, wire, writeFails,
                callVars, userCloses, peerVars, readPc, disp, nDisp, chanVars,
                loopVars, now, overlap>>

\* Server.Sockets and Server.GetSocket (0 is the nil socket).
Sockets == {sockets[i] : i \in IDs} \ {0}
GetSocket(id) == sockets[id]
ServerIsClosed == srvCloseChan = "closed"

\* Server.Close up to close(s.closeChan): the mutex is taken, a closed
\* server is left as it is.
ServerClose(u) ==
    /\ srvClose[u].pc = "idle"
    /\ u = ListenCloser => listen.pc = "closing"
    /\ srvCloseMutex = 0
    /\ IF ServerIsClosed
       THEN /\ srvClose' = [srvClose EXCEPT ![u].pc = "done"]
            /\ UNCHANGED <<srvCloseChan, srvCloseMutex>>
       ELSE /\ srvCloseChan' = "closed"
            /\ srvCloseMutex' = u
            /\ srvClose' = [srvClose EXCEPT ![u].pc = "ln"]
    /\ UNCHANGED <<lnClosed, sockets, sock, newConnChan, worker, listen,
                   remover, accepted, socketVars, conv, otherVars>>

\* s.ln.Close()
serverCloseListener(u) ==
    /\ srvClose[u].pc = "ln"
    /\ lnClosed' = TRUE
    /\ srvClose' = [srvClose EXCEPT ![u].pc = "list"]
    /\ UNCHANGED <<srvCloseChan, srvCloseMutex, sockets, sock, newConnChan,
                   worker, listen, remover, accepted, socketVars, conv, otherVars>>

\* s.Sockets(): the list of the sockets in the map at this moment.
serverCloseList(u) ==
    /\ srvClose[u].pc = "list"
    /\ srvClose' = [srvClose EXCEPT ![u].pc = "loop", ![u].list = Sockets]
    /\ UNCHANGED <<srvCloseChan, srvCloseMutex, lnClosed, sockets, sock,
                   newConnChan, worker, listen, remover, accepted, socketVars, conv, otherVars>>

\* The loop over the list: s.Close() of each socket; Close returns.
serverCloseSockets(u) ==
    /\ srvClose[u].pc = "loop"
    /\ sock' = [k \in Conns |->
                  IF k \in srvClose[u].list THEN [sock[k] EXCEPT !.st = "closed"]
                  ELSE sock[k]]
    /\ srvClose' = [srvClose EXCEPT ![u].pc = "done", ![u].list = {}]
    /\ srvCloseMutex' = 0
    /\ UNCHANGED <<srvCloseChan, lnClosed, sockets, newConnChan, worker,
                   listen, remover, accepted, socketVars, conv, otherVars>>

\* Server.Listen is called.
Listen ==
    /\ listen.pc = "off"
    /\ listen' = [listen EXCEPT !.pc = "accept"]
    /\ UNCHANGED <<srvCloseChan, srvCloseMutex, srvClose, lnClosed, sockets,
                   sock, newConnChan, worker, remover, accepted, socketVars, conv, otherVars>>

\* s.ln.Accept() returns a connection (at most max of them arrive).
listenAccept(max) ==
    /\ listen.pc = "accept"
    /\ ~lnClosed
    /\ accepted < max
    /\ accepted' = accepted + 1
    /\ listen' = [pc |-> "send", conn |-> accepted + 1]
    /\ UNCHANGED <<srvCloseChan, srvCloseMutex, srvClose, lnClosed, sockets,
                   sock, newConnChan, worker, remover, socketVars, conv, otherVars>>

\* s.ln.Accept() fails on the closed listener: s.IsClosed() holds, Listen
\* returns and its deferred s.Close() runs.
listenAcceptError ==
    /\ listen.pc = "accept"
    /\ lnClosed
    /\ listen' = [listen EXCEPT !.pc = "closing"]
    /\ UNCHANGED <<srvCloseChan, srvCloseMutex, srvClose, lnClosed, sockets,
                   sock, newConnChan, worker, remover, accepted, socketVars, conv, otherVars>>

\* s.newConnChan <- conn
listenSend ==
    /\ listen.pc = "send"
    /\ Len(newConnChan) < newConnChanSize
    /\ newConnChan' = Append(newConnChan, listen.conn)
    /\ listen' = [pc |-> "accept", conn |-> 0]
    /\ UNCHANGED <<srvCloseChan, srvCloseMutex, srvClose, lnClosed, sockets,
                   sock, worker, remover, accepted, socketVars, conv, otherVars>>

\* Listen has returned: its deferred Close has.
ListenReturned == listen.pc = "closing" /\ srvClose[ListenCloser].pc = "done"

\* handleConnectionLoop: case <-s.closeChan
workerReturn(w) ==
    /\ worker[w].pc = "select"
    /\ ServerIsClosed
    /\ worker' = [worker EXCEPT ![w].pc = "done"]
    /\ UNCHANGED <<srvCloseChan, srvCloseMutex, srvClose, lnClosed, sockets,
                   sock, newConnChan, listen, remover, accepted, socketVars, conv, otherVars>>

\* handleConnectionLoop: case conn := <-s.newConnChan, and NewSocket(conn).
workerReceive(w) ==
    /\ worker[w].pc = "select"
    /\ newConnChan # <<>>
    /\ worker' = [worker EXCEPT ![w] = [pc |-> "new", conn |-> Head(newConnChan)]]
    /\ newConnChan' = Tail(newConnChan)
    /\ sock' = [sock EXCEPT ![Head(newConnChan)] = [st |-> "open", id |-> 0]]
    /\ UNCHANGED <<srvCloseChan, srvCloseMutex, srvClose, lnClosed, sockets,
                   listen, remover, accepted, socketVars, conv, otherVars>>

\* A handleConnection that takes any id, used or not.
workerInsertAny(w) ==
    /\ worker[w].pc = "new"
    /\ \E id \in IDs :
          /\ sockets' = [sockets EXCEPT ![id] = worker[w].conn]
          /\ sock' = [sock EXCEPT ![worker[w].conn].id = id]
    /\ worker' = [worker EXCEPT ![w].pc = "inserted"]
    /\ UNCHANGED <<srvCloseChan, srvCloseMutex, srvClose, lnClosed,
                   newConnChan, listen, remover, accepted, socketVars, conv, otherVars>>

\* handleConnection under socketsMutex: randomString until the id is not in
\* the map, then s.sockets[socket.id] = socket.
workerInsert(w) ==
    /\ worker[w].pc = "new"
    /\ \E id \in IDs :
          /\ sockets[id] = 0
          /\ sockets' = [sockets EXCEPT ![id] = worker[w].conn]
          /\ sock' = [sock EXCEPT ![worker[w].conn].id = id]
    /\ worker' = [worker EXCEPT ![w].pc = "inserted"]
    /\ UNCHANGED <<srvCloseChan, srvCloseMutex, srvClose, lnClosed,
                   newConnChan, listen, remover, accepted, socketVars, conv, otherVars>>

\* The goroutine that removes the socket is started and s.onNewSocket(socket)
\* is called.
workerCallback(w) ==
    /\ worker[w].pc = "inserted"
    /\ remover' = [remover EXCEPT ![worker[w].conn] = "wait"]
    /\ worker' = [worker EXCEPT ![w].pc = "callback"]
    /\ UNCHANGED <<srvCloseChan, srvCloseMutex, srvClose, lnClosed, sockets,
                   sock, newConnChan, listen, accepted, socketVars, conv, otherVars>>

\* onNewSocket returns (or panics: handleConnection recovers).
workerCallbackReturn(w) ==
    /\ worker[w].pc = "callback"
    /\ worker' = [worker EXCEPT ![w] = [pc |-> "select", conn |-> 0]]
    /\ UNCHANGED <<srvCloseChan, srvCloseMutex, srvClose, lnClosed, sockets,
                   sock, newConnChan, listen, remover, accepted, socketVars, conv, otherVars>>

\* A socket of the server closes: Socket.Close closes its closeChan.  The
\* socket is in the hands of others than handleConnection from its insertion.
sockClose(k) ==
    /\ sock[k].st = "open"
    /\ sock[k].id # 0
    /\ sock' = [sock EXCEPT ![k].st = "closed"]
    /\ UNCHANGED <<srvCloseChan, srvCloseMutex, srvClose, lnClosed, sockets,
                   newConnChan, worker, listen, remover, accepted, socketVars, conv, otherVars>>

\* A goroutine that leaves the map as it is.
removerRunNothing(k) ==
    /\ remover[k] = "wait"
    /\ sock[k].st = "closed"
    /\ remover' = [remover EXCEPT ![k] = "done"]
    /\ UNCHANGED <<srvCloseChan, srvCloseMutex, srvClose, lnClosed, sockets,
                   sock, newConnChan, worker, listen, accepted, socketVars, conv, otherVars>>

\* The goroutine of handleConnection: <-socket.closeChan, then
\* delete(s.sockets, socket.id).
removerRun(k) ==
    /\ remover[k] = "wait"
    /\ sock[k].st = "closed"
    /\ sockets' = [sockets EXCEPT ![sock[k].id] = 0]
    /\ remover' = [remover EXCEPT ![k] = "done"]
    /\ UNCHANGED <<srvCloseChan, srvCloseMutex, srvClose, lnClosed, sock,
                   newConnChan, worker, listen, accepted, socketVars, conv, otherVars>>

\* The steps of the tasks of the server.
ServerSteps ==
    \/ \E u \in Closers : \/ ServerClose(u)
                          \/ serverCloseListener(u)
                          \/ serverCloseList(u)
                          \/ serverCloseSockets(u)
    \/ Listen
    \/ listenAcceptError
    \/ listenSend
    \/ \E w \in WorkerIds : \/ workerReturn(w)
                            \/ workerReceive(w)
                            \/ workerInsert(w)
                            \/ workerCallback(w)
    \/ \E k \in Conns : removerRun(k)

\* A server whose clients open NumIDs connections; the sockets close for
\* reasons of their own, the callbacks return.
NextServer ==
    \/ ServerSteps
    \/ listenAccept(NumIDs)
    \/ \E w \in WorkerIds : workerCallbackReturn(w)
    \/ \E k \in Conns : sockClose(k)

ServerFairness ==
    /\ \A k \in Conns : WF_vars(removerRun(k))
    /\ \A u \in Closers : WF_vars(serverCloseListener(u) \/ serverCloseList(u)
                                    \/ serverCloseSockets(u))
    /\ WF_vars(listenAcceptError)
    /\ WF_vars(ServerClose(ListenCloser))
    /\ \A w \in WorkerIds : WF_vars(workerInsert(w) \/ workerCallback(w))

SpecServer == Init /\ [][NextServer]_vars /\ ServerFairness

(***************************************************************************)
(* C21: every socket that closes leaves the map of the server for good:    *)
(* once it is closed it is eventually, and from then on always, absent     *)
(* from Sockets() and GetSocket of its id does not return it; when all     *)
(* accepted sockets are closed, Sockets() becomes empty.                   *)
(***************************************************************************)
ClosedSocketsRemoved ==
    /\ \A k \in Conns : (sock[k].st = "closed") ~> [](k \notin Sockets)
    /\ (\A k \in Conns : sock[k].st # "open") ~>
           (Sockets = {} \/ \E k \in Conns : sock[k].st = "open")

\* Two sockets sharing the map were closed and the map is empty again.
ClosedSocketsRemovedWitness ==
    /\ Sockets = {}
    /\ Cardinality({k \in Conns : remover[k] = "done"}) >= 2
    /\ \E k \in Conns : sock[k].st = "closed" /\ sock[k].id # sock[1].id

(***************************************************************************)
(* C22: when a Close of the server has returned and the workers have come  *)
(* to rest (every handleConnectionLoop has returned, no remover has a      *)
(* closed socket to delete), every socket the server created is closed and *)
(* the map is empty.                                                       *)
(***************************************************************************)
ServerQuiet ==
    /\ ServerIsClosed
    /\ srvCloseMutex = 0
    /\ \A w \in WorkerIds : worker[w].pc = "done"
    /\ \A k \in Conns : ~(remover[k] = "wait" /\ sock[k].st = "closed")

CloseDisconnectsAll ==
    ServerQuiet => /\ \A k \in Conns : sock[k].st # "open"
                   /\ Sockets = {}

(***************************************************************************)
(* A server whose onNewSocket callbacks do not return while the clients    *)
(* open MaxConns connections: the workers stay busy and the connections    *)
(* queue up in newConnChan.                                                *)
(***************************************************************************)
NextBusy ==
    \/ ServerSteps
    \/ listenAccept(MaxConns)

SpecBusy ==
    /\ Init /\ [][NextBusy]_vars
    /\ ServerFairness
    /\ WF_vars(listenSend)
    /\ \A w \in WorkerIds : WF_vars(workerReturn(w) \/ workerReceive(w))

(***************************************************************************)
(* C23: a closed server stays closed, and once the server is closed a      *)
(* Listen that is waiting (in Accept or in its send to newConnChan)        *)
(* returns.                                                                *)
(***************************************************************************)
ListenReturnsAfterClose ==
    /\ [](ServerIsClosed => []ServerIsClosed)
    /\ (ServerIsClosed /\ listen.pc \in {"accept", "send"}) ~> ListenReturned

(***************************************************************************)
(* C24: the map of the server.  Every key maps to a socket whose ID() is   *)
(* the key, and no socket is under two keys; an insertion uses an id that  *)
(* is not in the map; the id of an inserted socket never changes; a socket *)
(* is inserted before onNewSocket is called with it, so inside the         *)
(* callback GetSocket(s.ID()) returns s as long as s is not closed.        *)
(***************************************************************************)
\* Socket.ID
ID(k) == sock[k].id

MapKeysAreIDs ==
    /\ \A id \in IDs : GetSocket(id) # 0 => ID(GetSocket(id)) = id
    /\ \A k \in Conns : ID(k) = 0 => k \notin Sockets

InsertionIsFresh ==
    \A id \in IDs : (sockets'[id] # sockets[id] /\ sockets'[id] # 0) =>
                        /\ sockets[id] = 0
                        /\ sockets'[id] \notin Sockets

IDNeverChanges == \A k \in Conns : ID(k) # 0 => sock'[k].id = ID(k)

\* The sockets onNewSocket is running with.
InCallback == {worker[w].conn : w \in {x \in WorkerIds : worker[x].pc = "callback"}}

ServerMap ==
    /\ [](MapKeysAreIDs)
    /\ [][InsertionIsFresh /\ IDNeverChanges]_vars
    /\ [](\A k \in InCallback : ID(k) # 0)
    /\ [](\A k \in InCallback : sock[k].st = "open" => GetSocket(ID(k)) = k)

\* Two open sockets share the map, both inside their callbacks.
ServerMapWitness ==
    /\ Cardinality(InCallback) = 2
    /\ \A k \in InCallback : sock[k].st = "open" /\ GetSocket(ID(k)) = k

\* C24 as stated: inside the callback GetSocket(s.ID()) returns s.
ServerMapInCallback ==
    \A k \in InCallback : GetSocket(ID(k)) = k

(***************************************************************************)
(* The byte conversions of utils.go on their own.  A uint16 is a number;   *)
(* a uint32 is held as its two 16 bit halves [hi, lo] (it is the number    *)
(* hi * 65536 + lo), so that the values up to uint32Max are covered.       *)
(***************************************************************************)
errInvalidByteLen == errorsNew("invalid byte length")

\* The error results of the four functions.
uint16ToBytesErr(v) == NilErr
uint32ToBytesErr(v) == NilErr
bytesToUint16Err(data) == IF Len(data) < 2 THEN errInvalidByteLen ELSE NilErr
bytesToUint32Err(data) == IF Len(data) < 4 THEN errInvalidByteLen ELSE NilErr

\* endian.PutUint32 and endian.Uint32 on the halves.
PutUint32(v) == uint16ToBytes(v.hi) \o uint16ToBytes(v.lo)
Uint32(data) == [hi |-> bytesToUint16(SubSeq(data, 1, 2)),
                 lo |-> bytesToUint16(SubSeq(data, 3, 4))]

\* The numbers converted: every uint16, and the uint32 whose halves are the
\* numbers of TestByteConversion or lie next to a byte boundary.
Numbers16 == 0 .. uint16Max
Halves == {0, 1, 101, 219, 255, 256, 2387, 5251, 32767, 32768, 65280, uint16Max}
Numbers32 == [hi : Halves, lo : Halves]

convEncode ==
    /\ conv.pc = "in"
    /\ conv' = [conv EXCEPT
                  !.pc = "encoded",
                  !.data = IF conv.w = 16 THEN uint16ToBytes(conv.v) ELSE PutUint32(conv.v),
                  !.err = IF conv.w = 16 THEN uint16ToBytesErr(conv.v)
                          ELSE uint32ToBytesErr(conv.v)]
    /\ UNCHANGED <<socketVars, serverVars, otherVars>>

convDecode ==
    /\ conv.pc = "encoded"
    /\ conv' = [conv EXCEPT
                  !.pc = "decoded",
                  !.out = IF conv.w = 16 THEN bytesToUint16(conv.data) ELSE Uint32(conv.data),
                  !.outErr = IF conv.w = 16 THEN bytesToUint16Err(conv.data)
                             ELSE bytesToUint32Err(conv.data)]
    /\ UNCHANGED <<socketVars, serverVars, otherVars>>

InitBytes ==
    /\ InitState
    /\ \/ \E v \in Numbers16 : conv = [NoConv EXCEPT !.pc = "in", !.w = 16, !.v = v]
       \/ \E v \in Numbers32 : conv = [NoConv EXCEPT !.pc = "in", !.w = 32, !.v = v]

NextBytes == convEncode \/ convDecode

SpecBytes == InitBytes /\ [][NextBytes]_vars

(***************************************************************************)
(* C25: uint16ToBytes returns 2 bytes and no error, uint32ToBytes 4 bytes  *)
(* and no error, the most significant byte first; bytesToUint16 and        *)
(* bytesToUint32 of these bytes return the number without error.           *)
(***************************************************************************)
IsByte(b) == b \in 0 .. 255

ByteRoundTrip ==
    /\ conv.pc \in {"encoded", "decoded"} =>
          /\ conv.err = NilErr
          /\ Len(conv.data) = conv.w \div 8
          /\ \A i \in 1 .. Len(conv.data) : IsByte(conv.data[i])
          /\ conv.w = 16 => conv.data[1] = conv.v \div 256
          /\ conv.w = 32 => /\ conv.data[1] = conv.v.hi \div 256
                            /\ conv.data[4] = conv.v.lo % 256
          /\ (conv.w = 32 /\ conv.v.hi < 32768) =>
                /\ conv.data = uint32ToBytes(conv.v.hi * 65536 + conv.v.lo)
                /\ bytesToUint32(conv.data) = conv.v.hi * 65536 + conv.v.lo
    /\ conv.pc = "decoded" => conv.outErr = NilErr /\ conv.out = conv.v

\* uint16Max, uint32Max and a number with two different bytes went round.
ByteRoundTripWitness ==
    /\ conv.pc = "decoded"
    /\ \/ conv.w = 16 /\ conv.v = uint16Max /\ conv.out = uint16Max
       \/ conv.w = 32 /\ conv.v = [hi |-> uint16Max, lo |-> uint16Max]
             /\ conv.data = <<255, 255, 255, 255>>
       \/ conv.w = 16 /\ conv.v = 5251 /\ conv.data = <<20, 131>>

(***************************************************************************)
(* The registry of the Calls: a Call with each kind of argument and a      *)
(* second Call made while the first is registered, on an engine that may   *)
(* be closed by its user and whose transport may fail a write; the peer    *)
(* answers one of the requests.                                            *)
(***************************************************************************)
InProgress(c) == callPc[c] \notin {"idle", "done"}

RegistryArgs ==
    {<<"foo", "nil", "none">>, <<"foo", "big", "none">>, <<"foo", "nil", "bad">>}

NextRegistry ==
    \/ Ready
    \/ \E a \in RegistryArgs : readPc # "off" /\ Call(1, a[1], a[2], a[3])
    \/ callPc[1] = "select" /\ ~IsClosed /\ Call(2, "foo", "nil", "none")
    \/ \E c \in Calls : CallWritten(c)
    \/ \E c \in Calls : CallSelectClosed(c)
    \/ \E c \in Calls : CallSelectTimeout(c)
    \/ \E c \in Calls, d \in Disps : CallSelectReply(c, d)
    \/ \E c \in Calls : CallSelectPark(c)
    \/ \E c \in Calls : CallTimerFire(c)
    \/ \E c \in Calls : CallReturn(c)
    \/ \E t \in Tasks : writeLock(t)
    \/ \E t \in Tasks : connWriteOk(t)
    \/ \E t \in Tasks : connWriteClosed(t)
    \/ \E t \in Tasks, k \in 0 .. 1 : connWriteErr(t, k)
    \/ \E t \in Tasks : writeUnlock(t)
    \/ \E t \in Tasks : writeDeferred(t)
    \/ closeGoroutine
    \/ userCloses = 0 /\ UserClose
    \/ readLoop
    \/ readClosedConn
    \/ readLoopExit
    \/ \E d \in Disps : resetTimeout1(d)
    \/ \E d \in Disps : resetTimeout2(d)
    \/ \E d \in Disps : handleReceivedMessage(d)
    \/ \E d \in Disps : handleCallReturnRequest(d)
    \/ \E d \in Disps : callReturnRetryTimeout(d)
    \/ inSent = 0 /\ peerReply(1, "", <<>>)

SpecRegistry == Init /\ [][NextRegistry]_vars

(***************************************************************************)
(* C26: the registry holds exactly one entry for every Call in progress    *)
(* (from funcChain.New to the return of Call), under the key of that Call, *)
(* and none for any other Call; the keys of the Calls in progress are      *)
(* distinct; the entry is there before a byte of the call frame is         *)
(* written; the registry is empty when no Call is in progress.             *)
(***************************************************************************)
EntriesOf(c) == {k \in Keys : Get(k) = c}

CallRegistry ==
    /\ \A c \in Calls : EntriesOf(c) = IF InProgress(c) THEN {callArg[c].key} ELSE {}
    /\ \A c, o \in Calls : (c # o /\ InProgress(c) /\ InProgress(o))
                               => callArg[c].key # callArg[o].key
    /\ \A c \in Calls : wr[CallT(c)].n > 0 /\ InProgress(c) => EntriesOf(c) # {}
    /\ (\A c \in Calls : ~InProgress(c)) => Registered = {}

\* Two Calls were registered at the same time, the first got its reply, and
\* both have returned.
CallRegistryWitness ==
    /\ \A c \in Calls : callPc[c] = "done"
    /\ <<1, 2>> \in overlap
    /\ callRes[1].kind = "reply"
    /\ Registered = {}

(***************************************************************************)
(* One Call whose request the peer answers with up to MaxInbound           *)
(* call-return frames of the same ReturnKey, on an engine its user may     *)
(* close; the timer of the Call may fire at any time.                      *)
(***************************************************************************)
RepliesSteps ==
    \/ Ready
    \/ Call(1, "foo", "nil", "none")
    \/ CallWritten(1)
    \/ CallSelectClosed(1)
    \/ CallSelectTimeout(1)
    \/ \E d \in Disps : CallSelectReply(1, d)
    \/ CallSelectPark(1)
    \/ CallTimerFire(1)
    \/ CallReturn(1)
    \/ \E t \in Tasks : writeLock(t)
    \/ \E t \in Tasks : connWriteOk(t)
    \/ \E t \in Tasks : connWriteClosed(t)
    \/ \E t \in Tasks : writeUnlock(t)
    \/ \E t \in Tasks : writeDeferred(t)
    \/ closeGoroutine
    \/ readLoop
    \/ readClosedConn
    \/ readLoopExit
    \/ \E d \in Disps : resetTimeout1(d)
    \/ \E d \in Disps : resetTimeout2(d)
    \/ \E d \in Disps : handleReceivedMessage(d)
    \/ \E d \in Disps : handleCallReturnRequest(d)
    \/ \E d \in Disps : callReturnRetryTimeout(d)

NextReplies ==
    \/ RepliesSteps
    \/ userCloses = 0 /\ UserClose
    \/ peerReply(1, "", <<>>)

SpecReplies == Init /\ [][NextReplies]_vars

(***************************************************************************)
(* C27: a Call receives at most one reply, and exactly one of the reply,   *)
(* the timer and the close determines its result: a Call that returned the *)
(* reply received exactly one, a Call that returned ErrTimeout or          *)
(* ErrClosed received none, a Call that waited in its select returned one  *)
(* of the three, and a result once chosen does not change.                 *)
(***************************************************************************)
\* The dispatch goroutines whose send on the channel of Call c succeeded.
Delivered(c) == {d \in Disps : disp[d].ch = c /\ disp[d].out = "delivered"}

\* The Call has reached its select: its timer was created.
Waited(c) == timer[c].st # "none"

OneOutcome ==
    /\ [](\A c \in Calls :
            /\ Cardinality(Delivered(c)) <= 1
            /\ Delivered(c) # {} => Returned(c) /\ callRes[c].kind = "reply"
            /\ (Returned(c) /\ callRes[c].kind = "reply") => Delivered(c) # {}
            /\ (Returned(c) /\ Waited(c)) =>
                  callRes[c].kind \in {"reply", "ErrTimeout", "ErrClosed"})
    /\ [][\A c \in Calls : Returned(c) => callRes'[c] = callRes[c]]_vars

\* The peer sent the reply twice: one frame was delivered, the other was
\* dropped, while the engine was closed and the timer of the Call had fired.
OneOutcomeWitness ==
    /\ callPc[1] = "done"
    /\ callRes[1].kind = "reply"
    /\ IsClosed
    /\ \E d \in Disps : d \notin Delivered(1) /\ disp[d].ch = 1 /\ disp[d].pc = "done"
                          /\ disp[d].fr.typ = typeCallReturn
    /\ \E d \in Delivered(1) : disp[d].fr.hdr.key = callArg[1].key

(***************************************************************************)
(* The same scenario with the dispatch goroutines scheduled: each takes    *)
(* its next step when it can, and the timer of the second send fires.      *)
(***************************************************************************)
dispatchStep(d) ==
    \/ resetTimeout1(d)
    \/ resetTimeout2(d)
    \/ handleReceivedMessage(d)
    \/ handleCallReturnRequest(d)
    \/ callReturnRetryTimeout(d)

SpecDispatch ==
    Init /\ [][NextReplies]_vars /\ \A d \in Disps : WF_vars(dispatchStep(d))

(***************************************************************************)
(* C28: the goroutine dispatched for a call-return frame terminates.       *)
(***************************************************************************)
CallReturnDispatched(d) ==
    disp[d].pc \notin {"none", "done"} /\ disp[d].fr.typ = typeCallReturn

CallReturnTaskEnds ==
    \A d \in Disps : CallReturnDispatched(d) ~> (disp[d].pc = "done")

(***************************************************************************)
(* C29: resetTimeout does not block for ever: a dispatch goroutine that is *)
(* in one of its two sends gets past it.                                   *)
(***************************************************************************)
InResetTimeout(d) == disp[d].pc \in {"reset1", "reset2"}

ResetNeverBlocks ==
    \A d \in Disps : InResetTimeout(d) ~> ~InResetTimeout(d)

(***************************************************************************)
(* C30: no frame that follows a close frame on the stream is read and      *)
(* dispatched: when a goroutine was started for a close frame, none was    *)
(* started for a later frame (the goroutines are numbered in the order of  *)
(* the frames).                                                            *)
(***************************************************************************)
Dispatched(d) == disp[d].pc # "none"

CloseFrameStopsReading ==
    \A d1, d2 \in Disps :
        (d1 < d2 /\ Dispatched(d1) /\ disp[d1].fr.typ = typeClose) => ~Dispatched(d2)

(***************************************************************************)
(* The peer closes.  Its Close writes the close frame, which may not       *)
(* reach us, and then closes its end of the connection: our s.read returns *)
(* io.EOF once the bytes in flight have been read.                         *)
(***************************************************************************)
peerClose(lost) ==
    /\ peerConn = "open"
    /\ peerConn' = "closed"
    /\ IF lost \/ conn = "closed" \/ inSent >= MaxInbound
       THEN UNCHANGED <<inq, inSent>>
       ELSE /\ inq' = Append(inq, Frame(typeClose, NoHeader, <<>>, 0))
            /\ inSent' = inSent + 1
    /\ UNCHANGED <<closeVars, connVars, writeMutex, chanMap, wr, wire, writeFails, callVars,
                   userCloses, peer, readPc, disp, nDisp, chanVars, loopVars, now, overlap,
                   serverVars, conv, lockVars, hookVars, timerVars>>

\* A read loop that goes on reading at the end of the stream.
readEOFIgnored ==
    /\ readPc = "read"
    /\ conn = "open"
    /\ inq = <<>>
    /\ peerConn = "closed"
    /\ UNCHANGED vars

\* s.read returns io.EOF: the peer has closed and no byte is left.
readEOF ==
    /\ readPc = "read"
    /\ conn = "open"
    /\ inq = <<>>
    /\ peerConn = "closed"
    /\ readPc' = "exit"
    /\ UNCHANGED <<closeVars, connVars, writeMutex, chanMap, wr, wire, writeFails, callVars,
                   userCloses, peerVars, disp, nDisp, chanVars, loopVars, now, overlap,
                   serverVars, conv, otherVars>>

(***************************************************************************)
(* Two ready engines, one of which closes: we have a Call parked for its   *)
(* reply and a function given to OnClose; our ping timer may have fired    *)
(* and the peer may have sent a pong before it closes.  Every goroutine of *)
(* our engine is scheduled fairly.                                         *)
(***************************************************************************)
PeerCloseSteps ==
    \/ \E h \in Hooks : hookRun(h)
    \/ CallWritten(1)
    \/ CallSelectPark(1)
    \/ CallReturn(1)
    \/ \E t \in Tasks : writeLock(t)
    \/ \E t \in Tasks : connWriteOk(t)
    \/ \E t \in Tasks : connWriteClosed(t)
    \/ \E t \in Tasks : writeUnlock(t)
    \/ \E t \in Tasks : writeDeferred(t)
    \/ closeGoroutine
    \/ readLoop
    \/ readEOF
    \/ readClosedConn
    \/ readLoopExit
    \/ \E d \in Disps : resetTimeout1(d)
    \/ \E d \in Disps : resetTimeout2(d)
    \/ \E d \in Disps : handleReceivedMessage(d)
    \/ pingLoopClosed
    \/ pingLoopReset
    \/ pingLoopPark

NextPeerClose ==
    \/ PeerCloseSteps
    \/ Ready
    \/ readPc = "off" /\ OnClose(1)
    \/ readPc # "off" /\ Call(1, "foo", "nil", "none")
    \/ callPc[1] = "parked" /\ pingTimerFire
    \/ /\ callPc[1] = "parked"
       /\ peerConn = "open"
       /\ inSent = 0
       /\ peerSend(Frame(typePong, NoHeader, <<>>, 0))
    \/ \E lost \in BOOLEAN : callPc[1] = "parked" /\ peerClose(lost)

SpecPeerClose == Init /\ [][NextPeerClose]_vars /\ WF_vars(PeerCloseSteps)

\* The state after a Close has run to its end: the broadcast is made, the
\* conn is closed, every function given to OnClose has been called and no
\* Call waits in its select.
CloseSequenceDone ==
    /\ IsClosed
    /\ closeCount = 1
    /\ conn = "closed"
    /\ \A h \in Hooks : hooks[h].pc # "wait"
    /\ \A c \in Calls : callPc[c] \notin {"select", "parked"}

\* C31: when the peer of a ready, open engine has closed, the engine closes
\* as well, on the close frame or on the end of the stream when the frame
\* did not arrive, and the close sequence runs to its end: broadcast, conn
\* closed, functions of OnClose called, waiting Calls released.
PeerCloseClosesUs == (peerConn = "closed") ~> CloseSequenceDone

\* The close frame of the peer was handled, a function given to OnClose ran
\* and the parked Call returned ErrClosed, without a Close of the user.
PeerCloseClosesUsWitness ==
    /\ peerConn = "closed"
    /\ CloseSequenceDone
    /\ userCloses = 0
    /\ \E d \in Disps : disp[d].fr.typ = typeClose /\ disp[d].pc = "done"
    /\ \E h \in Hooks : hooks[h].calls = 1 /\ ~hooks[h].late
    /\ callRes[1] = Parked(ErrRes("ErrClosed"))

(***************************************************************************)
(* Socket.Close with its mutex.  A goroutine reaches its call of s.Close() *)
(* (closeCall), waits for closeMutex (closeLock), and runs the body, the   *)
(* deferred Unlock and the return to its caller (closeReturn).  The body   *)
(* does not block: the close frame is written by the goroutine it starts.  *)
(***************************************************************************)
\* Task t is in write, at the deferred check that found a short write.
ShortWrite(t) == t \in Tasks /\ wr[t].pc = "check"

closeCall(t) ==
    /\ closePc[t] = "none"
    /\ closePc' = [closePc EXCEPT ![t] = "lock"]
    /\ CASE t[1] = "user" ->
              /\ userCloses + 1 = t[2]
              /\ userCloses' = t[2]
              /\ UNCHANGED <<readPc, toPc, disp, wr>>
         [] t = ReadT ->
              /\ readPc = "exit"
              /\ readPc' = "closing"
              /\ UNCHANGED <<userCloses, toPc, disp, wr>>
         [] t = IdleT ->
              /\ toPc = "fired"
              /\ toPc' = "closing"
              /\ UNCHANGED <<userCloses, readPc, disp, wr>>
         [] t[1] = "disp" /\ ~ShortWrite(t) ->
              /\ disp[t[2]].pc = "handle"
              /\ disp[t[2]].fr.typ = typeClose
              /\ disp' = [disp EXCEPT ![t[2]].pc = "closing"]
              /\ UNCHANGED <<userCloses, readPc, toPc, wr>>
         [] OTHER ->
              /\ ShortWrite(t)
              /\ wr' = [wr EXCEPT ![t].pc = "closing"]
              /\ UNCHANGED <<userCloses, readPc, toPc, disp>>
    /\ UNCHANGED <<closeVars, connVars, writeMutex, chanMap, wire, writeFails, callVars,
                   peerVars, nDisp, chanVars, toTimer, pingPc, pingTimer, now, overlap,
                   serverVars, conv, peerConn, closeMutex, hookVars, timerVars>>

\* s.closeMutex.Lock()
closeLock(t) ==
    /\ closePc[t] = "lock"
    /\ closeMutex = NoTask
    /\ closeMutex' = t
    /\ closePc' = [closePc EXCEPT ![t] = "held"]
    /\ UNCHANGED <<socketVars, serverVars, conv, peerConn, hookVars, timerVars>>

\* The body of Close, the deferred Unlock, and the return to the caller:
\* write returns its error, the read loop, the timeout loop and the
\* goroutine of the close frame end.
closeReturn(t) ==
    /\ closePc[t] = "held"
    /\ closeMutex' = NoTask
    /\ closePc' = [closePc EXCEPT ![t] = "ret"]
    /\ Close(IF t \in Tasks /\ wr[t].pc = "closing"
             THEN [wr EXCEPT ![t].pc = "ret", ![t].res = "ErrShortWrite"]
             ELSE wr,
             callPc, callRes, IF t = IdleT THEN "done" ELSE toPc)
    /\ readPc' = IF t = ReadT THEN "done" ELSE readPc
    /\ disp' = IF t[1] = "disp" /\ disp[t[2]].pc = "closing" THEN dispDone(t[2], "")
               ELSE disp
    /\ UNCHANGED <<connVars, writeMutex, chanMap, wire, writeFails, callArg, timer,
                   userCloses, peerVars, nDisp, chanVars, toTimer, pingTimer, now, overlap,
                   serverVars, conv, peerConn, hookVars, timerVars>>

(***************************************************************************)
(* Close from every goroutine that calls it, at any time: a user, the read *)
(* loop on its exit, the timeout loop, the goroutine of a close frame, and *)
(* write after a short write, while the ping, the pong and the close frame *)
(* are written.  Only the steps of Close itself are scheduled fairly: a    *)
(* writer may hold the write mutex for ever.                               *)
(***************************************************************************)
NextLocks ==
    \/ Ready
    \/ \E t \in CloseCallers \ {UserT(2)} : wr[PingT].pc # "idle" /\ closeCall(t)
    \/ \E t \in CloseCallers : closeLock(t)
    \/ \E t \in CloseCallers : closeReturn(t)
    \/ \E t \in Tasks : writeLock(t)
    \/ \E t \in Tasks : connWriteOk(t)
    \/ \E t \in Tasks : connWriteClosed(t)
    \/ \E t \in Tasks : \E k \in {0, 1} : connWriteErr(t, k)
    \/ \E t \in Tasks : writeUnlock(t)
    \/ closeGoroutine
    \/ readLoop
    \/ readClosedConn
    \/ \E d \in Disps : resetTimeout1(d)
    \/ \E d \in Disps : resetTimeout2(d)
    \/ wr[PingT].pc # "idle" /\ timeoutTimerFire
    \/ pingTimerFire
    \/ pingLoopClosed
    \/ pingLoopPark
    \/ wr[PingT].pc # "idle" /\ inSent = 0 /\ peerSend(Frame(typeClose, NoHeader, <<>>, 0))

CloseSteps == \E t \in CloseCallers : closeLock(t) \/ closeReturn(t)

SpecLocks == Init /\ [][NextLocks]_vars /\ WF_vars(CloseSteps)

\* Task t waits for the write mutex; task t is inside Close or waits for
\* its mutex.
WaitsForWriteMutex(t) == t \in Tasks /\ wr[t].pc = "lock"
InClose(t) == closePc[t] \in {"lock", "held"}

\* C32: Close never deadlocks and always returns, whichever goroutine calls
\* it: no goroutine holds closeMutex while it waits for the write mutex,
\* none holds the write mutex while it is in Close, and every call of Close
\* returns (closePc only moves forward, so a call that is no longer in
\* Close has returned).
CloseReturns ==
    /\ [](\A t \in CloseCallers :
            /\ closeMutex = t => ~WaitsForWriteMutex(t)
            /\ InClose(t) => writeMutex # t)
    /\ []<>(\A t \in CloseCallers : ~InClose(t))

\* Close has returned to a user, to the timeout loop and to the goroutine of
\* a close frame while the goroutine that writes the close frame waits for
\* the write mutex, which the ping loop holds.
CloseReturnsWitness ==
    /\ closePc[UserT(1)] = "ret"
    /\ closePc[IdleT] = "ret"
    /\ \E d \in Disps : closePc[DispT(d)] = "ret"
    /\ WaitsForWriteMutex(CloseT)
    /\ writeMutex = PingT

\* The write of task t has returned its error after it put some, not all,
\* of the bytes of its frame on the stream.
PartialFrame(t) == wr[t].res = "ErrShortWrite" /\ 0 < wr[t].n /\ wr[t].n < wr[t].total

\* C33 (as stated): a write that ends with fewer bytes than the frame has
\* returns an error with the engine closed, and no whole frame is put on
\* the stream after the partial frame.
ShortWriteEndsStream ==
    /\ \A t \in Tasks :
          wr[t].pc = "ret" /\ wr[t].n < wr[t].total => wr[t].res = "ErrShortWrite" /\ IsClosed
    /\ \A t, u \in Tasks :
          PartialFrame(t) /\ u # t /\ FrameOnWire(u) =>
              \E i \in SegsOf(u), j \in SegsOf(t) : i < j

(***************************************************************************)
(* The hooks of handleCallRequest.  SetCallHook and SetErrorHook are       *)
(* called during the initialization or not at all; the peer calls "foo",   *)
(* whose function returns any value and any error or panics, and "bar",    *)
(* which is not registered; a conn.Write may fail.                         *)
(***************************************************************************)
SetCallHook ==
    /\ ~callHook
    /\ callHook' = TRUE
    /\ UNCHANGED <<socketVars, serverVars, conv, peerConn, lockVars, errorHook, handled, timerVars>>

SetErrorHook ==
    /\ ~errorHook
    /\ errorHook' = TRUE
    /\ UNCHANGED <<socketVars, serverVars, conv, peerConn, lockVars, callHook, handled, timerVars>>

NextHooked ==
    \/ readPc = "off" /\ SetCallHook
    \/ readPc = "off" /\ SetErrorHook
    \/ Ready
    \/ \E t \in Tasks : writeLock(t)
    \/ \E t \in Tasks : connWriteOk(t)
    \/ \E t \in Tasks : connWriteErr(t, 0)
    \/ \E t \in Tasks : connWriteClosed(t)
    \/ \E t \in Tasks : writeUnlock(t)
    \/ \E t \in Tasks : writeDeferred(t)
    \/ closeGoroutine
    \/ readLoop
    \/ readClosedConn
    \/ readLoopExit
    \/ \E d \in Disps : resetTimeout1(d)
    \/ \E d \in Disps : resetTimeout2(d)
    \/ \E d \in Disps : handleReceivedMessage(d)
    \/ \E d \in Disps, data \in {"nil", "chan", "big"}, err \in HandlerErrs :
          handleCallRequest(d, data, err)
    \/ \E d \in Disps : handlerPanic(d)
    \/ \E d \in Disps : dispWritten(d)
    \/ \E f \in {"foo", "bar"} : peerSend(Frame(typeCall, headerCall(f, 1), <<>>, 0))

SpecHooked == Init /\ [][NextHooked]_vars

\* The number of times handleCallRequest has made the call e for frame d.
TimesHandled(d, e) == Cardinality({i \in 1 .. Len(handled[d]) : handled[d][i] = e})

\* The function called for frame d has returned retErr.
FuncReturned(d, retErr) == TimesHandled(d, FuncCall(disp[d].fr.hdr.fn, retErr)) = 1

\* C34 (as stated): for every call frame that was handled and whose
\* function returned an error, the error hook, if set, was called exactly
\* once with the engine, the function name and that error, whether or not
\* the call-return frame could be sent; and the call hook, if set, was
\* called exactly once, before the function.
HooksPerCall ==
    \A d \in Disps :
        /\ (callHook /\ handled[d] # <<>>) =>
              /\ handled[d][1] = CallHookCall(disp[d].fr.hdr.fn)
              /\ TimesHandled(d, CallHookCall(disp[d].fr.hdr.fn)) = 1
              /\ handled[d][2][1] \in {"func", "panic"}
        /\ \A retErr \in HandlerErrs \ {NilErr} :
              (errorHook /\ disp[d].pc = "done" /\ FuncReturned(d, retErr)) =>
                  TimesHandled(d, ErrorHookCall(disp[d].fr.hdr.fn, retErr)) = 1

\* C35 (as stated): for every call frame of a registered function whose
\* function has returned, on an engine that is open, one call-return frame
\* was sent with the ReturnKey of the call and the error text of the
\* function as ReturnErr (empty for nil), whatever value the function
\* returned.
CallReturnPerCall ==
    \A d \in Disps : \A retErr \in HandlerErrs :
        (disp[d].pc = "done" /\ FuncReturned(d, retErr) /\ ~IsClosed) =>
            /\ FrameOnWire(DispT(d))
            /\ Cardinality({i \in SegsOf(DispT(d)) : wire[i].i = 1}) = 1
            /\ wr[DispT(d)].typ = typeCallReturn
            /\ wr[DispT(d)].hdr.key = disp[d].fr.hdr.key
            /\ wr[DispT(d)].hdr.err = retErrString(retErr)

(***************************************************************************)
(* A handler that waits in Call on the same engine.  The peer calls "foo"; *)
(* the function calls s.Call and returns when that Call has returned; the  *)
(* peer answers the nested call.  Before that the ping timer may have      *)
(* fired and the peer may have answered the ping with a pong.  The         *)
(* goroutines of the engine are scheduled fairly; timers fire at any time. *)
(***************************************************************************)
NestedSteps ==
    \/ \E t \in Tasks : writeLock(t)
    \/ \E t \in Tasks : connWriteOk(t)
    \/ \E t \in Tasks : writeUnlock(t)
    \/ pingLoopReset
    \/ pingLoopPark
    \/ readLoop
    \/ \E d \in Disps : resetTimeout1(d)
    \/ \E d \in Disps : resetTimeout2(d)
    \/ \E d \in Disps : handleReceivedMessage(d)
    \/ \E d \in Disps : disp[d].pc = "func" /\ Call(1, "foo", "nil", "none")
    \/ CallWritten(1)
    \/ CallSelectPark(1)
    \/ CallSelectTimeout(1)
    \/ \E d \in Disps : CallSelectReply(1, d)
    \/ CallReturn(1)
    \/ \E d \in Disps : handleCallReturnRequest(d)
    \/ \E d \in Disps : callPc[1] = "done" /\ handleCallRequest(d, "nil", NilErr)
    \/ \E d \in Disps : dispWritten(d)

NextNested ==
    \/ NestedSteps
    \/ Ready
    \/ nDisp = 0 /\ pingTimerFire
    \/ CallTimerFire(1)
    \/ \E d \in Disps : callReturnRetryTimeout(d)
    \/ /\ inSent = 0
       /\ FrameOnWire(PingT)
       /\ peerSendMax(Frame(typePong, NoHeader, <<>>, 0), MaxFrames)
    \/ /\ readPc = "read"
       /\ \A d \in Disps : disp[d].fr.typ # typeCall
       /\ \A i \in 1 .. Len(inq) : inq[i].typ # typeCall
       /\ peerSendMax(Frame(typeCall, headerCall("foo", 1), <<>>, 0), MaxFrames)
    \/ /\ FrameOnWire(CallT(1))
       /\ \A d \in Disps : disp[d].fr.typ # typeCallReturn
       /\ \A i \in 1 .. Len(inq) : inq[i].typ # typeCallReturn
       /\ peerSendMax(Frame(typeCallReturn, headerCallReturn(callArg[1].key, ""), <<>>, 1),
                      MaxFrames)

SpecNested == Init /\ [][NextNested]_vars /\ WF_vars(NestedSteps)

\* The read loop has started goroutine d and the goroutine has not come to
\* the switch on the type of its frame.
NotDispatched(d) == disp[d].pc \in {"reset1", "reset2"}

\* C36 (as stated): the read loop does not wait for a handler; while a
\* handler waits in Call, a frame that arrives is read and dispatched, so
\* that the reply of the nested Call, once read, comes to
\* handleCallReturnRequest.
BlockedHandlerDoesNotStall ==
    /\ [](inq # <<>> => readPc = "read" /\ conn = "open")
    /\ \A d \in Disps :
          (NotDispatched(d) /\ disp[d].fr.typ = typeCallReturn) ~> ~NotDispatched(d)

(***************************************************************************)
(* The ends of the read loop.  A Call waits for its reply; the peer sends  *)
(* frames with a good or a bad head, or closes; a read fails at any time   *)
(* (read error, read deadline); the user may close the socket.             *)
(***************************************************************************)
NextReadEnd ==
    \/ Ready
    \/ readPc # "off" /\ Call(1, "foo", "nil", "none")
    \/ CallWritten(1)
    \/ CallSelectClosed(1)
    \/ CallSelectPark(1)
    \/ CallReturn(1)
    \/ \E t \in Tasks : writeLock(t)
    \/ \E t \in Tasks : connWriteOk(t)
    \/ \E t \in Tasks : connWriteClosed(t)
    \/ \E t \in Tasks : writeUnlock(t)
    \/ \E t \in Tasks : writeDeferred(t)
    \/ closeGoroutine
    \/ userCloses = 0 /\ UserClose
    \/ readLoop
    \/ readError
    \/ readEOF
    \/ readClosedConn
    \/ readLoopExit
    \/ \E d \in Disps : resetTimeout1(d)
    \/ \E d \in Disps : resetTimeout2(d)
    \/ \E d \in Disps : handleReceivedMessage(d)
    \/ \E fr \in BadFrames \cup {Frame(typePong, NoHeader, <<>>, 0)} :
          peerConn = "open" /\ inSent = 0 /\ peerSend(fr)
    \/ readPc # "off" /\ peerClose(TRUE)

SpecReadEnd == Init /\ [][NextReadEnd]_vars

\* C37: when the read loop has returned the engine is closed, whatever
\* ended the loop: the step in which it returns leaves closeChan closed
\* and gives ErrClosed to every Call parked in its select, and no state has
\* a read loop that has returned on an open engine or beside a parked Call.
ReadLoopEndCloses ==
    /\ [](readPc = "done" => IsClosed /\ \A c \in Calls : callPc[c] # "parked")
    /\ [][readPc # "done" /\ readPc' = "done" =>
            /\ IsClosed'
            /\ \A c \in Calls :
                  callPc[c] = "parked" =>
                      callPc'[c] = "ret" /\ callRes'[c] = Parked(ErrRes("ErrClosed"))]_vars

\* The read loop returned on a frame with a bad head, its Close was the
\* one that closed the engine, and the parked Call has returned ErrClosed.
ReadLoopEndClosesWitness ==
    /\ readPc = "done"
    /\ inSent = 1
    /\ nDisp = 0
    /\ inq = <<>>
    /\ peerConn = "open"
    /\ closeCount = 1
    /\ callPc[1] = "done"
    /\ callRes[1] = Parked(ErrRes("ErrClosed"))

\* C38 (as stated): once closeChan is closed, the ping loop, the timeout
\* loop and the read loop all return.
ServiceTasksEnd == IsClosed ~> (pingPc = "done" /\ toPc = "done" /\ readPc = "done")


(***************************************************************************)
(* timer.Timer: a time.Timer whose Reset stops the timer and, when it was  *)
(* not active, receives the expired value from C before it arms the timer  *)
(* again.  The runtime takes an expired timer out of its heap and then     *)
(* sends the time on C without blocking: the two are separate steps.  One  *)
(* goroutine creates the Timer, sleeps, calls Reset and receives from C.   *)
(***************************************************************************)
Durations == 1 .. MaxDuration

timerRest == <<socketVars, serverVars, conv, peerConn, lockVars, hookVars>>

\* What the Timer was doing when Reset was called.
TimerCase ==
    IF tWhen # 0 THEN "active"
    ELSE IF tSending \/ tC # <<>> THEN "expired"
    ELSE "received"

NewTimer(d) ==
    /\ tPc = "none"
    /\ tWhen' = now + d
    /\ tEpoch' = 1
    /\ tPc' = "run"
    /\ UNCHANGED <<tSending, tC, tReset, tGot, timerRest>>

\* The runtime: the timer expires and leaves the heap.
timerExpire ==
    /\ tWhen # 0
    /\ now >= tWhen
    /\ tWhen' = 0
    /\ tSending' = TRUE
    /\ UNCHANGED <<tC, tEpoch, tPc, tReset, tGot, timerRest>>

\* The runtime: sendTime, a send on C that does not block.
sendTime ==
    /\ tSending
    /\ tSending' = FALSE
    /\ tC' = IF Len(tC) < 1 THEN Append(tC, <<tEpoch, now>>) ELSE tC
    /\ UNCHANGED <<tWhen, tEpoch, tPc, tReset, tGot, timerRest>>

\* Reset without the receive from C: time.Timer.Reset on a stopped timer.
ResetStopNoDrain(d) ==
    /\ tPc = "run"
    /\ tReset.n < MaxResets
    /\ tReset' = [d |-> d, n |-> tReset.n + 1, at |-> now, case |-> TimerCase,
                  active |-> tWhen # 0]
    /\ tWhen' = 0
    /\ tPc' = "rearm"
    /\ UNCHANGED <<tSending, tC, tEpoch, tGot, timerRest>>

\* Reset: `if active = t.Stop(); !active { <-t.C }`.
ResetStop(d) ==
    /\ tPc = "run"
    /\ tReset.n < MaxResets
    /\ tReset' = [d |-> d, n |-> tReset.n + 1, at |-> now, case |-> TimerCase,
                  active |-> tWhen # 0]
    /\ tWhen' = 0
    /\ tPc' = IF tWhen # 0 THEN "rearm" ELSE "drain"
    /\ UNCHANGED <<tSending, tC, tEpoch, tGot, timerRest>>

\* Reset: the receive `<-t.C` of a timer that was not active.
ResetDrain ==
    /\ tPc = "drain"
    /\ tC # <<>>
    /\ tC' = Tail(tC)
    /\ tPc' = "rearm"
    /\ UNCHANGED <<tWhen, tSending, tEpoch, tReset, tGot, timerRest>>

\* Reset: `t.Timer.Reset(d)` and the return of active.
ResetArm ==
    /\ tPc = "rearm"
    /\ tWhen' = now + tReset.d
    /\ tEpoch' = tEpoch + 1
    /\ tReset' = [tReset EXCEPT !.at = now]
    /\ tPc' = "run"
    /\ UNCHANGED <<tSending, tC, tGot, timerRest>>

\* The user receives from C.
TimerReceive ==
    /\ tPc = "run"
    /\ tC # <<>>
    /\ tGot' = [at |-> now, epoch |-> tC[1][1], sent |-> tC[1][2]]
    /\ tC' = Tail(tC)
    /\ UNCHANGED <<tWhen, tSending, tEpoch, tPc, tReset, timerRest>>

NextTimer ==
    \/ \E d \in Durations : NewTimer(d)
    \/ timerExpire
    \/ sendTime
    \/ \E d \in Durations : ResetStop(d)
    \/ ResetDrain
    \/ ResetArm
    \/ TimerReceive
    \/ tPc # "none" /\ now < MaxSleep /\ Tick

SpecTimer == Init /\ [][NextTimer]_vars

UnknownFrames == {Frame(t, NoHeader, <<>>, 0) : t \in {typeCallReturn + 1, 255}}

UnknownSteps ==
    \/ Ready
    \/ \E t \in Tasks : writeLock(t)
    \/ \E t \in Tasks : connWriteOk(t)
    \/ \E t \in Tasks : connWriteClosed(t)
    \/ \E t \in Tasks : writeUnlock(t)
    \/ \E t \in Tasks : writeDeferred(t)
    \/ closeGoroutine
    \/ readLoop
    \/ readDeadlineExpire
    \/ readLoopExit
    \/ \E d \in Disps : resetTimeout1(d)
    \/ \E d \in Disps : resetTimeout2(d)
    \/ \E d \in Disps : handleReceivedMessage(d)
    \/ pingTimerExpire
    \/ pingLoopReset
    \/ pingLoopPark
    \/ CallWritten(1)
    \/ CallSelectPark(1)
    \/ CallTimerExpire(1)
    \/ CallReturn(1)

NextUnknown ==
    \/ UnknownSteps
    \/ readPc = "read" /\ Call(1, "foo", "nil", "dur")
    \/ \E fr \in UnknownFrames : peerSend(fr)
    \/ ~ENABLED UnknownSteps /\ Elapse

SpecUnknown == Init /\ [][NextUnknown]_vars

\* The goroutine handles a frame whose type byte is greater than 4.
UnknownType(d) == disp[d].pc # "none" /\ disp[d].fr.typ > typeCallReturn

\* handleReceivedMessage is past s.resetTimeout().
PastReset(d) == disp[d].pc \in {"handle", "done"}

\* C40 (as stated): a frame with an unknown type byte resets the timer of
\* the timeout loop and the timer of the ping loop, calls no function and no
\* hook, delivers nothing to a Call, writes nothing, ends with the error of
\* the default case, and leaves the engine open with its read loop reading
\* (until the read deadline that was set after it expires).
UnknownTypeDropped ==
    /\ \A d \in Disps : UnknownType(d) =>
          /\ disp[d].pc \in {"reset1", "reset2", "handle", "done"}
          /\ disp[d].pc = "done" => disp[d].out = "invalid request type"
          /\ disp[d].ch = 0
          /\ handled[d] = <<>>
          /\ wr[DispT(d)] = NoWrite
          /\ BytesOf(DispT(d)) = <<>>
          /\ now < disp[d].at + readTimeout => (~IsClosed /\ readPc = "read")
          /\ (PastReset(d) /\ ~IsClosed /\ toPc = "select") =>
                (toTimer.st = "armed" /\ toTimer.at >= disp[d].at + socketTimeout)
          /\ (PastReset(d) /\ ~IsClosed /\ now < disp[d].at + pingInterval
                /\ pingPc \in {"select", "drain"} /\ resetPingTimeoutChan = 0) =>
                (pingTimer.st = "armed" /\ pingTimer.at >= disp[d].at + pingInterval)
    /\ (\A d \in Disps : disp[d].pc # "none" => disp[d].fr.typ # typeCallReturn) =>
          \A c \in Calls : callRes[c].kind # "reply"

====
